---- MODULE Spec2Model ----
(***************************************************************************)
(* Vehicle search of the Mechanic Service Logger:                          *)
(*   GET /api/vehicles/search      (server/routes.ts)                      *)
(*   resolvePrimaryMatch, buildSuggestions, determineSuggestionReason      *)
(*   DatabaseStorage lookups, searchVehicleCandidates, computeCandidateScore*)
(*                                                                         *)
(* A string is a sequence of one-character strings.  A query that the code *)
(* sends without ORDER BY (or whose ORDER BY leaves ties) returns its rows *)
(* in any order, so every storage operator below yields the SET of results *)
(* the database may answer with.                                           *)
(***************************************************************************)
EXTENDS Integers, Sequences, FiniteSets, TLC

VARIABLES customers, vehicles, services, media, uploads, serial,
          req, response, previous, scoring, invocation, inflight

vars == <<customers, vehicles, services, media, uploads, serial,
          req, response, previous, scoring, invocation, inflight>>

\* the record store (customers, vehicles, services and service media with the
\* sequences of their serial ids) and the files of the upload directory
store == <<customers, vehicles, services, media, uploads, serial>>

(***************************************************************************)
(* Characters and the string primitives of JavaScript / PostgreSQL         *)
(***************************************************************************)
\* String.prototype.toUpperCase and SQL lower() on the ASCII letters
ToUpper ==
  "a" :> "A" @@ "b" :> "B" @@ "c" :> "C" @@ "d" :> "D" @@ "e" :> "E" @@ "f" :> "F" @@ "g" :> "G" @@
  "h" :> "H" @@ "i" :> "I" @@ "j" :> "J" @@ "k" :> "K" @@ "l" :> "L" @@ "m" :> "M" @@ "n" :> "N" @@
  "o" :> "O" @@ "p" :> "P" @@ "q" :> "Q" @@ "r" :> "R" @@ "s" :> "S" @@ "t" :> "T" @@ "u" :> "U" @@
  "v" :> "V" @@ "w" :> "W" @@ "x" :> "X" @@ "y" :> "Y" @@ "z" :> "Z"

ToLower ==
  "A" :> "a" @@ "B" :> "b" @@ "C" :> "c" @@ "D" :> "d" @@ "E" :> "e" @@ "F" :> "f" @@ "G" :> "g" @@
  "H" :> "h" @@ "I" :> "i" @@ "J" :> "j" @@ "K" :> "k" @@ "L" :> "l" @@ "M" :> "m" @@ "N" :> "n" @@
  "O" :> "o" @@ "P" :> "p" @@ "Q" :> "q" @@ "R" :> "r" @@ "S" :> "s" @@ "T" :> "t" @@ "U" :> "u" @@
  "V" :> "v" @@ "W" :> "w" @@ "X" :> "x" @@ "Y" :> "y" @@ "Z" :> "z"

LowerLetters == DOMAIN ToUpper

UpperLetters == DOMAIN ToLower

DigitChars == {"0", "1", "2", "3", "4", "5", "6", "7", "8", "9"}

WhitespaceChars == {" ", "\t"}

IsDigit(c) == c \in DigitChars

IsLetter(c) == c \in LowerLetters \/ c \in UpperLetters

IsSpace(c) == c \in WhitespaceChars

UpperChar(c) == IF c \in LowerLetters THEN ToUpper[c] ELSE c

LowerChar(c) == IF c \in UpperLetters THEN ToLower[c] ELSE c

toUpperCase(s) == [i \in 1..Len(s) |-> UpperChar(s[i])]

toLowerCase(s) == [i \in 1..Len(s) |-> LowerChar(s[i])]

Max(a, b) == IF a >= b THEN a ELSE b

Min(a, b) == IF a <= b THEN a ELSE b

Take(s, n) == SubSeq(s, 1, Min(n, Len(s)))

\* String.prototype.includes
includes(hay, needle) ==
  \E i \in 0..(Len(hay) - Len(needle)) : SubSeq(hay, i + 1, i + Len(needle)) = needle

\* String.prototype.trim
RECURSIVE TrimLeft(_)
TrimLeft(s) == IF s # <<>> /\ IsSpace(Head(s)) THEN TrimLeft(Tail(s)) ELSE s

RECURSIVE TrimRight(_)
TrimRight(s) ==
  IF s # <<>> /\ IsSpace(s[Len(s)]) THEN TrimRight(SubSeq(s, 1, Len(s) - 1)) ELSE s

trim(s) == TrimRight(TrimLeft(s))

\* value.replace(/\s+/g, " "): every run of whitespace becomes one space
RECURSIVE CollapseWhitespace(_)
CollapseWhitespace(s) ==
  IF s = <<>> THEN <<>>
  ELSE IF IsSpace(Head(s))
       THEN <<" ">> \o CollapseWhitespace(TrimLeft(s))
       ELSE <<Head(s)>> \o CollapseWhitespace(Tail(s))

\* value.replace(/\s+/g, ""): whitespace removed
RemoveWhitespace(s) == SelectSeq(s, LAMBDA c : ~IsSpace(c))

\* value.split(/\s+/): the pieces between runs of whitespace (a string that
\* starts or ends with whitespace yields an empty piece there)
RECURSIVE SplitWhitespace(_, _)
SplitWhitespace(s, cur) ==
  IF s = <<>> THEN <<cur>>
  ELSE IF IsSpace(Head(s))
       THEN <<cur>> \o SplitWhitespace(TrimLeft(s), <<>>)
       ELSE SplitWhitespace(Tail(s), Append(cur, Head(s)))

Range(s) == {s[i] : i \in 1..Len(s)}

\* the string without its index-th character (0-based index, as in the code)
DeleteAt(s, index) == SubSeq(s, 1, index) \o SubSeq(s, index + 2, Len(s))

(***************************************************************************)
(* PostgreSQL LIKE / ILIKE: % matches any run, _ any one character, and    *)
(* backslash (the default escape) makes the next character literal.        *)
(* A pattern ending in a lone backslash makes PostgreSQL raise an error    *)
(* when the matcher reaches it; no pattern of the bounded terms does.      *)
(***************************************************************************)
RECURSIVE like(_, _)
like(s, p) ==
  IF p = <<>> THEN s = <<>>
  ELSE IF Head(p) = "\\"
       THEN /\ Len(p) >= 2
            /\ s # <<>>
            /\ Head(s) = p[2]
            /\ like(Tail(s), SubSeq(p, 3, Len(p)))
  ELSE IF Head(p) = "%"
       THEN \E k \in 0..Len(s) : like(SubSeq(s, k + 1, Len(s)), Tail(p))
  ELSE IF Head(p) = "_"
       THEN s # <<>> /\ like(Tail(s), Tail(p))
  ELSE s # <<>> /\ Head(s) = Head(p) /\ like(Tail(s), Tail(p))

ilike(s, p) == like(toLowerCase(s), toLowerCase(p))

(***************************************************************************)
(* Term normaliser (server/routes.ts)                                      *)
(***************************************************************************)
normalizeWhitespace(value) == trim(CollapseWhitespace(value))

normalizePhoneDigits(value) == SelectSeq(value, IsDigit)

hasLetters(value) == \E i \in 1..Len(value) : IsLetter(value[i])

hasDigits(value) == \E i \in 1..Len(value) : IsDigit(value[i])

isLikelyPlate(value) ==
  LET compact == RemoveWhitespace(value)
  IN  Len(compact) >= 4 /\ hasLetters(compact) /\ hasDigits(compact)

(***************************************************************************)
(* Pattern generation of the candidate fetcher                             *)
(***************************************************************************)
MIN_SUBSTRING_LENGTH == 3

RECURSIVE escapeLikePattern(_)
escapeLikePattern(value) ==
  IF value = <<>> THEN <<>>
  ELSE IF Head(value) \in {"%", "_"}
       THEN <<"\\", Head(value)>> \o escapeLikePattern(Tail(value))
       ELSE <<Head(value)>> \o escapeLikePattern(Tail(value))

\* `%${escaped}%`
Contains(literal) == <<"%">> \o literal \o <<"%">>

\* the single-character-deletion variants kept by both pattern builders
DeletionVariants(normalized) ==
  IF Len(normalized) >= MIN_SUBSTRING_LENGTH + 1
  THEN {v \in {DeleteAt(normalized, index) : index \in 0..(Len(normalized) - 1)} :
          Len(v) >= MIN_SUBSTRING_LENGTH}
  ELSE {}

\* the whitespace-delimited tokens that get a pattern of their own
Tokens(normalized) ==
  {t \in Range(SplitWhitespace(normalized, <<>>)) : Len(t) >= MIN_SUBSTRING_LENGTH}

buildFuzzyPatterns(value) ==
  LET normalized == trim(value)
  IN  IF normalized = <<>> THEN {}
      ELSE {Contains(escapeLikePattern(normalized))}
           \cup {Contains(escapeLikePattern(v)) : v \in DeletionVariants(normalized)}
           \cup {Contains(escapeLikePattern(t)) : t \in Tokens(normalized)}

buildDigitPatterns(value) ==
  LET digitsOnly == trim(SelectSeq(value, IsDigit))
  IN  IF digitsOnly = <<>> THEN {}
      ELSE {Contains(digitsOnly)} \cup {Contains(v) : v \in DeletionVariants(digitsOnly)}

(***************************************************************************)
(* Scorer.  Distances and scores are exact rationals <<numerator,          *)
(* denominator>> with a positive denominator.                              *)
(***************************************************************************)
Min3(a, b, c) == Min(a, Min(b, c))

\* one row of the matrix, filled left to right; row[j + 1] is matrix[i][j]
RECURSIVE LevRow(_, _, _, _)
LevRow(prevRow, charA, b, row) ==
  IF Len(row) > Len(b) THEN row
  ELSE LET j == Len(row)
           cost == IF charA = b[j] THEN 0 ELSE 1
           cell == Min3(prevRow[j + 1] + 1, row[j] + 1, prevRow[j] + cost)
       IN  LevRow(prevRow, charA, b, Append(row, cell))

\* the matrix, filled row by row; matrix[i + 1] is row i
RECURSIVE LevMatrix(_, _, _)
LevMatrix(a, b, matrix) ==
  IF Len(matrix) > Len(a) THEN matrix
  ELSE LET i == Len(matrix)
       IN  LevMatrix(a, b, Append(matrix, LevRow(matrix[i], a[i], b, <<i>>)))

LengthGap(a, b) == IF Len(a) > Len(b) THEN Len(a) - Len(b) ELSE Len(b) - Len(a)

levenshteinDistance(a, b) ==
  IF a = b THEN 0
  ELSE IF Len(a) = 0 THEN Len(b)
  ELSE IF Len(b) = 0 THEN Len(a)
  ELSE LevMatrix(a, b, <<[j \in 1..(Len(b) + 1) |-> j - 1]>>)[Len(a) + 1][Len(b) + 1]

RatLess(x, y) == x[1] * y[2] < y[1] * x[2]

RatEq(x, y) == x[1] * y[2] = y[1] * x[2]

RatMin(x, y) == IF RatLess(y, x) THEN y ELSE x

\* Number.POSITIVE_INFINITY, larger than every distance
Infinity == <<1, 0>>

IsFinite(x) == x[2] # 0

NULL == [id |-> 0]

\* the comparison strings, in the order the code pushes them
VehicleLabel(vehicle) == trim(vehicle.make \o <<" ">> \o vehicle.model)

ComparisonValues(entry) ==
  (IF entry.vehicle.plateNumber # <<>> THEN <<toUpperCase(entry.vehicle.plateNumber)>> ELSE <<>>)
  \o (IF VehicleLabel(entry.vehicle) # <<>>
      THEN <<toUpperCase(VehicleLabel(entry.vehicle))>> ELSE <<>>)
  \o (IF entry.customer # NULL /\ entry.customer.name # <<>>
      THEN <<toUpperCase(entry.customer.name)>> ELSE <<>>)

\* distance / Math.max(value.length, termLength, 1)
NormalizedDistance(normalizedTerm, value) ==
  <<levenshteinDistance(normalizedTerm, value),
    Max(Max(Len(value), Max(Len(normalizedTerm), 1)), 1)>>

NoBonus(normalizedTerm, value, bestDistance) == bestDistance

\* a value that contains the term, or is contained in it, caps the distance at 0.05
ContainmentBonus(normalizedTerm, value, bestDistance) ==
  IF includes(value, normalizedTerm) \/ includes(normalizedTerm, value)
  THEN RatMin(bestDistance, <<5, 100>>)
  ELSE bestDistance

\* the loop over comparisonValues (none of them is empty)
RECURSIVE TextDistance(_, _, _)
TextDistance(normalizedTerm, values, bestDistance) ==
  IF values = <<>> THEN bestDistance
  ELSE TextDistance(normalizedTerm, Tail(values),
                    ContainmentBonus(normalizedTerm, Head(values),
                                     RatMin(bestDistance,
                                            NormalizedDistance(normalizedTerm, Head(values)))))

\* Math.min(bestDistance, normalizedDistance * 0.9) on the digits of the phone
DigitDistance(digitOnlyTerm, candidateDigits, bestDistance) ==
  IF candidateDigits # <<>>
  THEN RatMin(bestDistance,
              <<levenshteinDistance(digitOnlyTerm, candidateDigits) * 9,
                Max(Max(Len(candidateDigits), Len(digitOnlyTerm)), 1) * 10>>)
  ELSE bestDistance

PhoneDistance(digitOnlyTerm, entry, bestDistance) ==
  IF digitOnlyTerm # <<>> /\ entry.customer # NULL /\ entry.customer.phone # <<>>
  THEN DigitDistance(digitOnlyTerm, SelectSeq(entry.customer.phone, IsDigit), bestDistance)
  ELSE bestDistance

\* Math.min(Math.max(bestDistance, 0), 1)
Clamp(bestDistance) ==
  RatMin(IF RatLess(bestDistance, <<0, 1>>) THEN <<0, 1>> ELSE bestDistance, <<1, 1>>)

DistanceOf(bestDistance) == bestDistance

\* 1 - clamped, or 0 when no distance was found
ScoreOf(bestDistance) ==
  IF ~IsFinite(bestDistance) THEN <<0, 1>>
  ELSE <<Clamp(bestDistance)[2] - Clamp(bestDistance)[1], Clamp(bestDistance)[2]>>

computeCandidateScore(normalizedTerm, digitOnlyTerm, entry) ==
  IF normalizedTerm = <<>> /\ digitOnlyTerm = <<>> THEN <<0, 1>>
  ELSE ScoreOf(PhoneDistance(digitOnlyTerm, entry,
                             TextDistance(normalizedTerm, ComparisonValues(entry), Infinity)))

(***************************************************************************)
(* Reason classification (server/routes.ts)                                *)
(***************************************************************************)
AlwaysPartial(normalizedTerm, digitsOnly, candidate, customer) == "partial"

determineSuggestionReason(normalizedTerm, digitsOnly, candidate, customer) ==
  LET upperTerm == toUpperCase(normalizedTerm)
      plateUpper == toUpperCase(candidate.plateNumber)
  IN  IF upperTerm # <<>> /\ includes(plateUpper, upperTerm) THEN "plate"
      ELSE IF /\ digitsOnly # <<>>
              /\ customer # NULL
              /\ customer.phone # <<>>
              /\ includes(normalizePhoneDigits(customer.phone), digitsOnly) THEN "phone"
      ELSE IF /\ upperTerm # <<>>
              /\ customer # NULL
              /\ customer.name # <<>>
              /\ includes(toUpperCase(customer.name), upperTerm) THEN "name"
      ELSE IF /\ upperTerm # <<>>
              /\ \/ includes(toUpperCase(candidate.make), upperTerm)
                 \/ includes(toUpperCase(candidate.model), upperTerm) THEN "vehicle"
      ELSE "partial"

(***************************************************************************)
(* The record store.  The server starts on whatever the database holds:    *)
(* any part of the catalogued rows that keeps the schema's constraints     *)
(* (customers.phone unique, vehicles.plate_number unique as text, every    *)
(* vehicle's and service's foreign keys present).                          *)
(***************************************************************************)
CustomerCatalog ==
  { [id |-> 1, phone |-> <<"5","5","5","-","1","2","3","4">>, name |-> <<"S","a","m">>],
    [id |-> 2, phone |-> <<"5","5","5","1","2","3","4">>,     name |-> <<"S","A","M">>],
    [id |-> 3, phone |-> <<"5","5","5","1","2","3","5">>,     name |-> <<"S","a","m","i">>],
    [id |-> 4, phone |-> <<"7","7">>, name |-> <<"L","e","e">>] }

Kia == <<"K","i","a">>

Rio == <<"R","i","o">>

VehicleCatalog ==
  { [id |-> 1, customerId |-> 1, plateNumber |-> <<"A","B","1","2">>, make |-> Kia, model |-> Rio, createdAt |-> 1],
    [id |-> 2, customerId |-> 1, plateNumber |-> <<"A","X","1","2">>, make |-> Kia, model |-> Rio, createdAt |-> 1],
    [id |-> 3, customerId |-> 2, plateNumber |-> <<"a","b","1","2">>, make |-> Kia, model |-> Rio, createdAt |-> 2],
    [id |-> 4, customerId |-> 3, plateNumber |-> <<"A","_","1","2">>, make |-> Kia, model |-> Rio, createdAt |-> 3],
    [id |-> 5, customerId |-> 4, plateNumber |-> <<"A","\\","B","1">>, make |-> Kia, model |-> Rio, createdAt |-> 3],
    [id |-> 6, customerId |-> 4, plateNumber |-> <<"5","5","1","2","3","4">>, make |-> Kia, model |-> Rio, createdAt |-> 4] }

ServiceCatalog ==
  { [id |-> 1, vehicleId |-> 1, customerId |-> 1, serviceDate |-> 1],
    [id |-> 2, vehicleId |-> 1, customerId |-> 1, serviceDate |-> 2],
    [id |-> 3, vehicleId |-> 6, customerId |-> 4, serviceDate |-> 3] }

Ids(rows) == {r.id : r \in rows}

\* the constraints of the schema (shared/schema.ts, migrations/0000)
SchemaOk(cs, vs, ss) ==
  /\ \A c1 \in cs, c2 \in cs : (c1.id = c2.id \/ c1.phone = c2.phone) => c1 = c2
  /\ \A v1 \in vs, v2 \in vs : (v1.id = v2.id \/ v1.plateNumber = v2.plateNumber) => v1 = v2
  /\ \A v \in vs : v.customerId \in Ids(cs)
  /\ \A x \in ss : x.vehicleId \in Ids(vs) /\ x.customerId \in Ids(cs)

\* every ordering of a set of rows: the answer of a SELECT without ORDER BY
RECURSIVE AnyOrder(_)
AnyOrder(rows) ==
  IF rows = {} THEN {<<>>}
  ELSE UNION {{<<r>> \o rest : rest \in AnyOrder(rows \ {r})} : r \in rows}

\* every ordering that ORDER BY key DESC allows (rows with equal keys in any
\* order); keyed is a set of <<key, row>> pairs
RECURSIVE OrderByDesc(_)
OrderByDesc(keyed) ==
  IF keyed = {} THEN {<<>>}
  ELSE UNION {{<<k[2]>> \o rest : rest \in OrderByDesc(keyed \ {k})} :
                k \in {x \in keyed : \A y \in keyed : y[1] <= x[1]}}

\* the row a query destructures as `const [row] = await ...` (any matching row,
\* or undefined when there is none)
FirstRow(rows) == IF rows = {} THEN {NULL} ELSE rows

(***************************************************************************)
(* DatabaseStorage (storage.ts)                                            *)
(***************************************************************************)
getCustomer(id) == FirstRow({c \in customers : c.id = id})

getCustomerByNormalizedPhone(phone) ==
  LET normalized == SelectSeq(phone, IsDigit)
  IN  IF normalized = <<>> THEN {NULL}
      ELSE FirstRow({c \in customers : SelectSeq(c.phone, IsDigit) = normalized})

getCustomersByExactName(name) ==
  LET trimmed == trim(name)
  IN  IF trimmed = <<>> THEN {<<>>}
      ELSE AnyOrder({c \in customers : toLowerCase(c.name) = toLowerCase(trimmed)})

getVehicleByPlate(plateNumber) ==
  FirstRow({v \in vehicles : ilike(v.plateNumber, plateNumber)})

\* SELECT * FROM vehicles without the WHERE clause
getVehiclesOfAnyCustomer(customerId) == AnyOrder(vehicles)

getVehiclesByCustomer(customerId) == AnyOrder({v \in vehicles : v.customerId = customerId})

getServicesByVehicle(vehicleId) ==
  OrderByDesc({<<x.serviceDate, x>> : x \in {y \in services : y.vehicleId = vehicleId}})

(***************************************************************************)
(* Candidate fetcher: DatabaseStorage.searchVehicleCandidates              *)
(***************************************************************************)
\* vehicles LEFT JOIN customers ON vehicles.customer_id = customers.id
JoinedRows ==
  UNION {{[vehicle |-> v, customer |-> c] : c \in getCustomer(v.customerId)} : v \in vehicles}

\* the ilike conditions pushed for one text pattern
TextCondition(row, pattern) ==
  \/ ilike(row.vehicle.plateNumber, pattern)
  \/ ilike(row.vehicle.make, pattern)
  \/ ilike(row.vehicle.model, pattern)
  \/ row.customer # NULL /\ ilike(row.customer.name, pattern)

\* regexp_replace(customers.phone, '\D', '', 'g') LIKE pattern
DigitCondition(row, pattern) ==
  row.customer # NULL /\ like(SelectSeq(row.customer.phone, IsDigit), pattern)

WhereClause(row, likePatterns, digitPatterns) ==
  \/ \E pattern \in likePatterns : TextCondition(row, pattern)
  \/ \E pattern \in digitPatterns : DigitCondition(row, pattern)

\* the comparator of the final sort: a sorts strictly before b
SortsBefore(a, b) ==
  IF ~RatEq(b.score, a.score) THEN RatLess(b.score, a.score)
  ELSE b.record.vehicle.createdAt < a.record.vehicle.createdAt

\* Array.prototype.sort is stable: an entry goes behind the entries it ties with
RECURSIVE SortedInsert(_, _)
SortedInsert(sorted, entry) ==
  IF sorted = <<>> THEN <<entry>>
  ELSE IF SortsBefore(entry, Head(sorted)) THEN <<entry>> \o sorted
  ELSE <<Head(sorted)>> \o SortedInsert(Tail(sorted), entry)

Unsorted(entries, sorted) == entries

RECURSIVE StableSort(_, _)
StableSort(entries, sorted) ==
  IF entries = <<>> THEN sorted
  ELSE StableSort(Tail(entries), SortedInsert(sorted, Head(entries)))

\* scored.get / scored.set: a vehicle id seen before keeps its place and takes
\* the new record only with a strictly higher score
SetScore(scored, record, score) ==
  IF \E i \in 1..Len(scored) : scored[i].record.vehicle.id = record.vehicle.id
  THEN [i \in 1..Len(scored) |->
          IF scored[i].record.vehicle.id = record.vehicle.id /\ RatLess(scored[i].score, score)
          THEN [record |-> record, score |-> score]
          ELSE scored[i]]
  ELSE Append(scored, [record |-> record, score |-> score])

\* the `scored` map: one entry per vehicle id, in the order of first appearance
RECURSIVE ScoreRows(_, _, _, _)
ScoreRows(rawResults, normalizedTerm, digitOnlyTerm, scored) ==
  IF rawResults = <<>> THEN scored
  ELSE ScoreRows(Tail(rawResults), normalizedTerm, digitOnlyTerm,
                 SetScore(scored, Head(rawResults),
                          computeCandidateScore(normalizedTerm, digitOnlyTerm, Head(rawResults))))

\* .map((entry) => entry.record)
Records(entries) == [i \in 1..Len(entries) |-> entries[i].record]

\* sort, slice(0, limit), map
RankRows(rawResults, normalizedTerm, digitOnlyTerm, limit) ==
  Records(Take(StableSort(ScoreRows(rawResults, normalizedTerm, digitOnlyTerm, <<>>), <<>>),
               limit))

AllRows(likePatterns, digitPatterns) == JoinedRows

\* the rows the query selects: all of them when there is no condition
MatchingRows(likePatterns, digitPatterns) ==
  IF likePatterns \cup digitPatterns # {}
  THEN {row \in JoinedRows : WhereClause(row, likePatterns, digitPatterns)}
  ELSE JoinedRows

UnlimitedResults(likePatterns, digitPatterns, limit) ==
  OrderByDesc({<<row.vehicle.createdAt, row>> : row \in MatchingRows(likePatterns, digitPatterns)})

\* ORDER BY vehicles.created_at DESC LIMIT max(limit, 5) * 6
QueryResults(likePatterns, digitPatterns, limit) ==
  {Take(ordered, Max(limit, 5) * 6) :
     ordered \in OrderByDesc({<<row.vehicle.createdAt, row>> :
                                row \in MatchingRows(likePatterns, digitPatterns)})}

DigitPatternsOf(digitOnlyTerm) ==
  IF digitOnlyTerm # <<>> THEN buildDigitPatterns(digitOnlyTerm) ELSE {}

\* the runs of searchVehicleCandidates after `const sanitized = term.trim()`:
\* the rows the query answered (none when it was not sent) and the candidates
\* returned
FetchRuns(sanitized, limit) ==
  IF sanitized = <<>> THEN {[queried |-> FALSE, rawResults |-> <<>>, candidates |-> <<>>]}
  ELSE {[queried |-> TRUE, rawResults |-> rawResults,
         candidates |-> RankRows(rawResults, toUpperCase(sanitized),
                                 SelectSeq(sanitized, IsDigit), limit)] :
          rawResults \in QueryResults(buildFuzzyPatterns(sanitized),
                                      DigitPatternsOf(SelectSeq(sanitized, IsDigit)), limit)}

SearchSanitized(sanitized, limit) == {run.candidates : run \in FetchRuns(sanitized, limit)}

searchVehicleCandidates(term, limit) == SearchSanitized(trim(term), limit)

(***************************************************************************)
(* Primary match resolver (server/routes.ts).  An outcome also records the *)
(* step that resolved the match and the storage calls that were made.      *)
(***************************************************************************)
buildLookupPayload(vehicle) ==
  UNION {{[vehicle |-> vehicle, customer |-> customer, services |-> servicesOfVehicle] :
            servicesOfVehicle \in getServicesByVehicle(vehicle.id)} :
         customer \in getCustomer(vehicle.customerId)}

Resolved(vehicle, seedSuggestions, step, reads) ==
  {[match |-> payload, seedSuggestions |-> seedSuggestions, via |-> step,
    reads |-> reads \o <<"getCustomer", "getServicesByVehicle">>] :
     payload \in buildLookupPayload(vehicle)}

Unresolved(seedSuggestions, reads) ==
  {[match |-> NULL, seedSuggestions |-> seedSuggestions, via |-> "none", reads |-> reads]}

SeedsOf(vehiclesForCustomer, customer, reason) ==
  [i \in 1..Len(vehiclesForCustomer) |->
     [vehicle |-> vehiclesForCustomer[i], customer |-> customer, reason |-> reason]]

\* the seeds pushed when several customers carry the name
RECURSIVE SeedsOfAll(_)
SeedsOfAll(customersByName) ==
  IF customersByName = <<>> THEN {<<>>}
  ELSE UNION {{SeedsOf(vehiclesForCustomer, Head(customersByName), "name") \o rest :
                 rest \in SeedsOfAll(Tail(customersByName))} :
              vehiclesForCustomer \in getVehiclesByCustomer(Head(customersByName).id)}

\* the vehicles one customer carrying the name owns: one resolves the match,
\* any other number become seeds
SingleCustomerStep(singleCustomer, seedSuggestions, reads) ==
  UNION {IF Len(vehiclesForCustomer) = 1
         THEN Resolved(vehiclesForCustomer[1], seedSuggestions, "name",
                       Append(reads, "getVehiclesByCustomer"))
         ELSE Unresolved(seedSuggestions \o SeedsOf(vehiclesForCustomer, singleCustomer, "name"),
                         Append(reads, "getVehiclesByCustomer")) :
         vehiclesForCustomer \in getVehiclesByCustomer(singleCustomer.id)}

NameStepForFirst(customersByName, seedSuggestions, reads) ==
  IF Len(customersByName) >= 1
  THEN SingleCustomerStep(customersByName[1], seedSuggestions, reads)
  ELSE Unresolved(seedSuggestions, reads)

NameStepFor(customersByName, seedSuggestions, reads) ==
  IF Len(customersByName) = 1
  THEN SingleCustomerStep(customersByName[1], seedSuggestions, reads)
  ELSE IF Len(customersByName) > 1
  THEN UNION {Unresolved(seedSuggestions \o seeds,
                         reads \o [i \in 1..Len(customersByName) |-> "getVehiclesByCustomer"]) :
              seeds \in SeedsOfAll(customersByName)}
  ELSE Unresolved(seedSuggestions, reads)

NameStep(normalizedTerm, seedSuggestions, reads) ==
  IF normalizedTerm # <<>>
  THEN UNION {NameStepFor(customersByName, seedSuggestions, Append(reads, "getCustomersByExactName")) :
              customersByName \in getCustomersByExactName(normalizedTerm)}
  ELSE Unresolved(seedSuggestions, reads)

PhoneStepFor(customer, normalizedTerm, reads) ==
  IF customer # NULL
  THEN UNION {IF Len(vehiclesForCustomer) = 1
              THEN Resolved(vehiclesForCustomer[1], <<>>, "phone", Append(reads, "getVehiclesByCustomer"))
              ELSE NameStep(normalizedTerm, SeedsOf(vehiclesForCustomer, customer, "phone"),
                            Append(reads, "getVehiclesByCustomer")) :
              vehiclesForCustomer \in getVehiclesByCustomer(customer.id)}
  ELSE NameStep(normalizedTerm, <<>>, reads)

PhoneStepUnguarded(normalizedTerm, digitsOnly, reads) ==
  UNION {PhoneStepFor(customer, normalizedTerm, Append(reads, "getCustomerByNormalizedPhone")) :
         customer \in getCustomerByNormalizedPhone(digitsOnly)}

PhoneStep(normalizedTerm, digitsOnly, reads) ==
  IF Len(digitsOnly) >= 7
  THEN UNION {PhoneStepFor(customer, normalizedTerm, Append(reads, "getCustomerByNormalizedPhone")) :
              customer \in getCustomerByNormalizedPhone(digitsOnly)}
  ELSE NameStep(normalizedTerm, <<>>, reads)

resolvePrimaryMatch(term) ==
  LET normalizedTerm == normalizeWhitespace(term)
      uppercaseTerm == toUpperCase(normalizedTerm)
      digitsOnly == normalizePhoneDigits(normalizedTerm)
  IN  IF normalizedTerm # <<>> /\ isLikelyPlate(normalizedTerm)
      THEN UNION {IF vehicle # NULL
                  THEN Resolved(vehicle, <<>>, "plate", <<"getVehicleByPlate">>)
                  ELSE PhoneStep(normalizedTerm, digitsOnly, <<"getVehicleByPlate">>) :
                  vehicle \in getVehicleByPlate(uppercaseTerm)}
      ELSE PhoneStep(normalizedTerm, digitsOnly, <<>>)

(***************************************************************************)
(* Suggestion assembler (server/routes.ts).  The accumulator is the Map in *)
(* insertion order.                                                        *)
(***************************************************************************)
VEHICLE_SUGGESTION_LIMIT == 5

NeverMatchedVehicle(matchVehicleId, id) == FALSE

\* `matchVehicleId && suggestion.vehicle.id === matchVehicleId`
IsMatchedVehicle(matchVehicleId, id) == matchVehicleId # 0 /\ id = matchVehicleId

HasNone(accumulator, id) == FALSE

\* accumulator.has(id)
Has(accumulator, id) == \E i \in 1..Len(accumulator) : accumulator[i].vehicle.id = id

IgnoreSeeds(matchVehicleId, seeds, accumulator) == accumulator

RECURSIVE InsertSeeds(_, _, _)
InsertSeeds(matchVehicleId, seeds, accumulator) ==
  IF seeds = <<>> THEN accumulator
  ELSE InsertSeeds(matchVehicleId, Tail(seeds),
                   IF \/ IsMatchedVehicle(matchVehicleId, Head(seeds).vehicle.id)
                      \/ Has(accumulator, Head(seeds).vehicle.id)
                   THEN accumulator
                   ELSE Append(accumulator, Head(seeds)))

\* the entry the fetch loop sets for a candidate
FetchedSuggestion(normalizedTerm, digitsOnly, candidate) ==
  [vehicle |-> candidate.vehicle, customer |-> candidate.customer,
   reason |-> determineSuggestionReason(normalizedTerm, digitsOnly,
                                        candidate.vehicle, candidate.customer)]

\* the three `continue` conditions of the fetch loop
SkipsCandidate(matchVehicleId, candidate, accumulator) ==
  \/ candidate.vehicle = NULL
  \/ IsMatchedVehicle(matchVehicleId, candidate.vehicle.id)
  \/ Has(accumulator, candidate.vehicle.id)

RECURSIVE InsertFetched(_, _, _, _, _)
InsertFetched(normalizedTerm, digitsOnly, matchVehicleId, fetchedCandidates, accumulator) ==
  IF fetchedCandidates = <<>> THEN accumulator
  ELSE IF SkipsCandidate(matchVehicleId, Head(fetchedCandidates), accumulator)
  THEN InsertFetched(normalizedTerm, digitsOnly, matchVehicleId,
                     Tail(fetchedCandidates), accumulator)
  ELSE IF Len(accumulator) + 1 >= VEHICLE_SUGGESTION_LIMIT
  THEN Append(accumulator, FetchedSuggestion(normalizedTerm, digitsOnly, Head(fetchedCandidates)))
  ELSE InsertFetched(normalizedTerm, digitsOnly, matchVehicleId, Tail(fetchedCandidates),
                     Append(accumulator,
                            FetchedSuggestion(normalizedTerm, digitsOnly, Head(fetchedCandidates))))

KeepAll(accumulated) == accumulated

\* Array.from(accumulator.values()).slice(0, VEHICLE_SUGGESTION_LIMIT)
SliceToLimit(accumulated) == Take(accumulated, VEHICLE_SUGGESTION_LIMIT)

\* candidateLimit * 2, the limit handed to storage.searchVehicleCandidates
FetchLimit(seeds) == Max(VEHICLE_SUGGESTION_LIMIT, Len(seeds)) * 2

\* fetchedCandidates is what `await storage.searchVehicleCandidates(normalizedTerm,
\* candidateLimit * 2)` returned
Accumulate(term, matchVehicleId, seeds, fetchedCandidates) ==
  InsertFetched(normalizeWhitespace(term),
                normalizePhoneDigits(normalizeWhitespace(term)),
                matchVehicleId, fetchedCandidates,
                InsertSeeds(matchVehicleId, seeds, <<>>))

buildSuggestions(term, matchVehicleId, seeds, fetchedCandidates) ==
  SliceToLimit(Accumulate(term, matchVehicleId, seeds, fetchedCandidates))

(***************************************************************************)
(* Sessions and the route guards (server/middleware.ts)                    *)
(***************************************************************************)
\* a session as passport presents it: req.isAuthenticated() and req.user?.role
Anonymous == [authenticated |-> FALSE, role |-> "none"]

Sessions ==
  {Anonymous} \cup {[authenticated |-> TRUE, role |-> role] : role \in {"admin", "mechanic", "viewer"}}

\* requireAuth looks at req.isAuthenticated() alone: one session of each kind
ReadSessions == {Anonymous, [authenticated |-> TRUE, role |-> "viewer"]}

isAuthenticated(session) == session.authenticated

\* the status a guard answers with, or 0 when it calls next()
requireAuth(session) == IF ~isAuthenticated(session) THEN 401 ELSE 0

requireAuthOnly(session, allowedRoles) == IF ~isAuthenticated(session) THEN 401 ELSE 0

requireRole(session, allowedRoles) ==
  IF ~isAuthenticated(session) THEN 401
  ELSE IF session.role = "none" \/ session.role \notin allowedRoles THEN 403
  ELSE 0

\* requireRole("admin", "mechanic")
Editors == {"admin", "mechanic"}

(***************************************************************************)
(* GET /api/vehicles/search behind requireAuth.  Besides the JSON body a   *)
(* response records the handler's locals (seeds, fetched candidates,       *)
(* resolving step, storage calls made).                                    *)
(***************************************************************************)
ErrorResponse(status, request, reads) ==
  [status |-> status, body |-> "error", request |-> request, match |-> NULL,
   suggestions |-> <<>>, seeds |-> <<>>, fetched |-> <<>>, accumulated |-> 0,
   via |-> "none", reads |-> reads]

\* match?.vehicle.id
MatchVehicleId(match) == IF match = NULL THEN 0 ELSE match.vehicle.id

\* one run of the try block: resolvePrimaryMatch answered `resolved`, the fetch
\* inside buildSuggestions answered fetchedCandidates
SearchRun(searchTerm, resolved, fetchedCandidates) ==
  [match |-> resolved.match,
   suggestions |-> buildSuggestions(searchTerm, MatchVehicleId(resolved.match),
                                    resolved.seedSuggestions, fetchedCandidates),
   seeds |-> resolved.seedSuggestions, fetched |-> fetchedCandidates,
   accumulated |-> Len(Accumulate(searchTerm, MatchVehicleId(resolved.match),
                                  resolved.seedSuggestions, fetchedCandidates)),
   via |-> resolved.via, reads |-> Append(resolved.reads, "searchVehicleCandidates")]

\* what the fetch can answer, per limit it is called with
FetchedBy(searchTerm, limits) ==
  {<<limit, searchVehicleCandidates(normalizeWhitespace(searchTerm), limit)>> : limit \in limits}

FetchedFor(fetchedBy, seeds) ==
  (CHOOSE pair \in fetchedBy : pair[1] = FetchLimit(seeds))[2]

SearchRunsAfter(searchTerm, resolvedRuns, fetchedBy) ==
  UNION {{SearchRun(searchTerm, resolved, fetchedCandidates) :
            fetchedCandidates \in FetchedFor(fetchedBy, resolved.seedSuggestions)} :
         resolved \in resolvedRuns}

SearchRunsFrom(searchTerm, resolvedRuns) ==
  SearchRunsAfter(searchTerm, resolvedRuns,
                  FetchedBy(searchTerm, {FetchLimit(resolved.seedSuggestions) :
                                           resolved \in resolvedRuns}))

\* the runs of resolvePrimaryMatch followed by buildSuggestions in which no read
\* fails; the fetch depends on the seeds only through their number
SearchRuns(searchTerm) == SearchRunsFrom(searchTerm, resolvePrimaryMatch(searchTerm))

\* the query string: req.query.query if it is a string, else req.query.q, else ""
RawQuery(request) == IF request.given THEN request.query ELSE <<>>

NeverMissing(searchTerm) == FALSE

\* `if (!searchTerm)`
IsMissing(searchTerm) == searchTerm = <<>>

PartialResponses(request, runs) ==
  {[status |-> 200, body |-> "result", request |-> request, match |-> run.match,
    suggestions |-> <<>>, seeds |-> run.seeds, fetched |-> <<>>,
    accumulated |-> 0, via |-> run.via, reads |-> run.reads] : run \in runs}

\* res.json({ match, suggestions }) for a run, or the catch block's 500 when
\* one of its reads throws
Responses(request, runs) ==
  {[status |-> 200, body |-> "result", request |-> request, match |-> run.match,
    suggestions |-> run.suggestions, seeds |-> run.seeds, fetched |-> run.fetched,
    accumulated |-> run.accumulated, via |-> run.via, reads |-> run.reads] : run \in runs}
  \cup UNION {{ErrorResponse(500, request, Take(run.reads, failing)) :
                 failing \in 1..Len(run.reads)} : run \in runs}

SearchVehicles(request, authenticated) ==
  IF ~authenticated THEN {ErrorResponse(401, request, <<>>)}
  ELSE IF IsMissing(normalizeWhitespace(RawQuery(request)))
  THEN {ErrorResponse(400, request, <<>>)}
  ELSE Responses(request, SearchRuns(normalizeWhitespace(RawQuery(request))))

(***************************************************************************)
(* The writing endpoints (server/routes.ts) and the statements they send   *)
(* (storage.ts).  A handler's outcome is its status, the storage calls it  *)
(* made and the store it leaves; any storage call may throw.               *)
(***************************************************************************)
\* an outcome that leaves the store as it is
Answer(status, calls) ==
  [status |-> status, calls |-> calls, customers |-> customers, vehicles |-> vehicles,
   services |-> services, media |-> media, uploads |-> uploads, serial |-> serial]

\* nextval of a serial column
Advance(column) == [serial EXCEPT ![column] = @ + 1]

\* insertCustomerSchema.parse: phone and name of at least one character
ParsesCustomer(body) == Len(body.phone) >= 1 /\ Len(body.name) >= 1

getCustomerByPhone(phone) == FirstRow({c \in customers : c.phone = phone})

\* INSERT INTO customers ... RETURNING
createCustomer(customer) ==
  customers \cup {[id |-> serial.customers, phone |-> customer.phone, name |-> customer.name]}

\* UPDATE customers SET ... WHERE id = ...
updateCustomer(id, customer) ==
  {IF c.id = id THEN [c EXCEPT !.phone = customer.phone, !.name = customer.name] ELSE c :
     c \in customers}

\* the customers table without customers_phone_unique
PhoneNeverTaken(id, phone) == FALSE

\* customers_phone_unique would be violated by giving the phone to row id
PhoneTaken(id, phone) == \E c \in customers : c.id # id /\ c.phone = phone

\* POST /api/customers
PostCustomer(session, body) ==
  IF requireRole(session, Editors) # 0 THEN {Answer(requireRole(session, Editors), <<>>)}
  ELSE IF ~ParsesCustomer(body) THEN {Answer(400, <<>>)}
  ELSE {Answer(400, <<"getCustomerByPhone">>)}
       \cup UNION {IF existingCustomer # NULL THEN {Answer(400, <<"getCustomerByPhone">>)}
                   ELSE {Answer(400, <<"getCustomerByPhone", "createCustomer">>),
                         [Answer(201, <<"getCustomerByPhone", "createCustomer">>)
                            EXCEPT !.customers = createCustomer(body),
                                   !.serial = Advance("customers")]} :
                   existingCustomer \in getCustomerByPhone(body.phone)}

\* PATCH /api/customers/:id
PatchCustomer(session, id, body) ==
  IF requireRole(session, Editors) # 0 THEN {Answer(requireRole(session, Editors), <<>>)}
  ELSE IF ~ParsesCustomer(body) THEN {Answer(400, <<>>)}
  ELSE {Answer(400, <<"updateCustomer">>)}
       \cup (IF id \notin Ids(customers) THEN {Answer(404, <<"updateCustomer">>)}
             ELSE IF PhoneTaken(id, body.phone) THEN {}
             ELSE {[Answer(200, <<"updateCustomer">>)
                      EXCEPT !.customers = updateCustomer(id, body)]})

\* the services a DELETE takes along: ON DELETE CASCADE of services.vehicle_id
\* and services.customer_id
CascadedServices(customerIds, vehicleIds) ==
  {x \in services : x.customerId \in customerIds \/ x.vehicleId \in vehicleIds}

\* what a DELETE that cascades to the given services leaves of the store.  The
\* foreign key of the service media table is not part of the sources: the media
\* rows of a deleted service either go with it, or stay, or block the DELETE.
DeleteOutcomes(status, call, remainingCustomers, remainingVehicles, cascaded) ==
  {[Answer(status, <<call>>) EXCEPT !.customers = remainingCustomers,
                                    !.vehicles = remainingVehicles,
                                    !.services = services \ cascaded,
                                    !.media = remainingMedia] :
     remainingMedia \in {media, {m \in media : m.serviceId \notin Ids(cascaded)}}}
  \cup {Answer(500, <<call>>)}

\* DELETE /api/customers/:id
DeleteCustomer(session, id) ==
  IF requireRole(session, Editors) # 0 THEN {Answer(requireRole(session, Editors), <<>>)}
  ELSE DeleteOutcomes(204, "deleteCustomer",
                      {c \in customers : c.id # id},
                      {v \in vehicles : v.customerId # id},
                      CascadedServices({id}, {v.id : v \in {w \in vehicles : w.customerId = id}}))

\* insertVehicleSchema.parse: plate, make and model of at least one character
ParsesVehicle(body) ==
  Len(body.plateNumber) >= 1 /\ Len(body.make) >= 1 /\ Len(body.model) >= 1

\* vehicles_plate_number_unique or the foreign key to customers would be violated
VehicleRejected(id, body) ==
  \/ \E v \in vehicles : v.id # id /\ v.plateNumber = body.plateNumber
  \/ body.customerId \notin Ids(customers)

\* INSERT INTO vehicles ... RETURNING; created_at defaults to now()
createVehicle(vehicle) ==
  vehicles \cup {[id |-> serial.vehicles, customerId |-> vehicle.customerId,
                  plateNumber |-> vehicle.plateNumber, make |-> vehicle.make,
                  model |-> vehicle.model, createdAt |-> serial.vehicles]}

updateVehicle(id, vehicle) ==
  {IF v.id = id
   THEN [v EXCEPT !.customerId = vehicle.customerId, !.plateNumber = vehicle.plateNumber,
                  !.make = vehicle.make, !.model = vehicle.model]
   ELSE v : v \in vehicles}

\* POST /api/vehicles
PostVehicle(session, body) ==
  IF requireRole(session, Editors) # 0 THEN {Answer(requireRole(session, Editors), <<>>)}
  ELSE IF ~ParsesVehicle(body) THEN {Answer(400, <<>>)}
  ELSE {Answer(400, <<"createVehicle">>)}
       \cup (IF VehicleRejected(0, body) THEN {}
             ELSE {[Answer(201, <<"createVehicle">>)
                      EXCEPT !.vehicles = createVehicle(body),
                             !.serial = Advance("vehicles")]})

\* PATCH /api/vehicles/:id
PatchVehicle(session, id, body) ==
  IF requireRole(session, Editors) # 0 THEN {Answer(requireRole(session, Editors), <<>>)}
  ELSE IF ~ParsesVehicle(body) THEN {Answer(400, <<>>)}
  ELSE {Answer(400, <<"updateVehicle">>)}
       \cup (IF id \notin Ids(vehicles) THEN {Answer(404, <<"updateVehicle">>)}
             ELSE IF VehicleRejected(id, body) THEN {}
             ELSE {[Answer(200, <<"updateVehicle">>)
                      EXCEPT !.vehicles = updateVehicle(id, body)]})

\* DELETE /api/vehicles/:id
DeleteVehicle(session, id) ==
  IF requireRole(session, Editors) # 0 THEN {Answer(requireRole(session, Editors), <<>>)}
  ELSE DeleteOutcomes(204, "deleteVehicle", customers,
                      {v \in vehicles : v.id # id}, CascadedServices({}, {id}))

\* insertServiceSchema.parse: a description of the work of at least one character
ParsesService(body) == Len(body.workPerformed) >= 1

\* the file types mediaUpload's fileFilter lets through
IsAcceptedType(mimetype) == mimetype \in {"image", "video"}

\* the names multer's diskStorage gives n uploaded files: names no file of the
\* directory carries (a time stamp and a random number in the code)
RECURSIVE FreshNames(_, _, _)
FreshNames(n, candidate, taken) ==
  IF n = 0 THEN {}
  ELSE IF candidate \in taken THEN FreshNames(n, candidate + 1, taken)
  ELSE {candidate} \cup FreshNames(n - 1, candidate + 1, taken)

\* INSERT INTO services ... RETURNING; service_date defaults to now()
createService(vehicleId, customerId) ==
  services \cup {[id |-> serial.services, vehicleId |-> vehicleId, customerId |-> customerId,
                  serviceDate |-> serial.services]}

\* a media row refers to its file by relativePath
MediaRow(id, serviceId, file) == [id |-> id, serviceId |-> serviceId, relativePath |-> file]

\* INSERT INTO service_media ... RETURNING, one row per uploaded file
RECURSIVE addServiceMedia(_, _, _)
addServiceMedia(serviceId, files, nextId) ==
  IF files = {} THEN {}
  ELSE LET file == CHOOSE f \in files : \A g \in files : f <= g
       IN  {MediaRow(nextId, serviceId, file)}
           \cup addServiceMedia(serviceId, files \ {file}, nextId + 1)

\* the rest of the handler once vehicleId and customerId are settled: every
\* path but the 201 one runs cleanupUploadedFiles, which unlinks the files
InsertService(calls, body, vehicleId, customerId, uploadedFiles) ==
  IF vehicleId = 0 \/ customerId = 0 THEN {Answer(400, calls)}
  ELSE IF ~ParsesService(body) THEN {Answer(400, calls)}
  ELSE {Answer(400, Append(calls, "createService"))}
       \cup (IF vehicleId \notin Ids(vehicles) \/ customerId \notin Ids(customers) THEN {}
             ELSE IF uploadedFiles = {}
             THEN {[Answer(201, Append(calls, "createService"))
                      EXCEPT !.services = createService(vehicleId, customerId),
                             !.serial = Advance("services")]}
             ELSE {[Answer(400, calls \o <<"createService", "addServiceMedia">>)
                      EXCEPT !.services = createService(vehicleId, customerId),
                             !.serial = Advance("services")],
                   [Answer(201, calls \o <<"createService", "addServiceMedia">>)
                      EXCEPT !.services = createService(vehicleId, customerId),
                             !.media = media \cup addServiceMedia(serial.services, uploadedFiles,
                                                                 serial.media),
                             !.uploads = uploads \cup uploadedFiles,
                             !.serial = [serial EXCEPT !.services = @ + 1,
                                                       !.media = @ + Cardinality(uploadedFiles)]]})

\* the route handler of POST /api/services, the files being on disk
CreateService(body, plateNumber, uploadedFiles) ==
  IF plateNumber # <<>>
  THEN {Answer(400, <<"getVehicleByPlate">>)}
       \cup UNION {IF vehicle = NULL THEN {Answer(404, <<"getVehicleByPlate">>)}
                   ELSE InsertService(<<"getVehicleByPlate">>, body, vehicle.id,
                                      vehicle.customerId, uploadedFiles) :
                   vehicle \in getVehicleByPlate(plateNumber)}
  ELSE InsertService(<<>>, body, body.vehicleId, body.customerId, uploadedFiles)

\* POST /api/services: requireRole, then mediaUpload.array (a file the filter
\* refuses ends the request in the error middleware, multer removing what it
\* had stored), then the route handler
PostService(session, body, files) ==
  IF requireRole(session, Editors) # 0 THEN {Answer(requireRole(session, Editors), <<>>)}
  ELSE IF \E i \in 1..Len(files) : ~IsAcceptedType(files[i]) THEN {Answer(400, <<>>)}
  ELSE CreateService(body, toUpperCase(trim(body.plateNumber)),
                     FreshNames(Len(files), 1, uploads))

(***************************************************************************)
(* The reading endpoints other than the search: requireAuth, one storage   *)
(* call, 404 when the row asked for by id is missing.                      *)
(***************************************************************************)
ReadRoutes ==
  { [route |-> "GET /api/customers", call |-> "getCustomers", byId |-> "none"],
    [route |-> "GET /api/customers/:id", call |-> "getCustomer", byId |-> "customers"],
    [route |-> "GET /api/vehicles", call |-> "getVehicles", byId |-> "none"],
    [route |-> "GET /api/vehicles/:id", call |-> "getVehicle", byId |-> "vehicles"],
    [route |-> "GET /api/vehicles/customer/:customerId", call |-> "getVehiclesByCustomer", byId |-> "none"],
    [route |-> "GET /api/services", call |-> "getServices", byId |-> "none"],
    [route |-> "GET /api/services/:id", call |-> "getService", byId |-> "services"],
    [route |-> "GET /api/services/:id/media", call |-> "getServiceMedia", byId |-> "none"],
    [route |-> "GET /api/services/vehicle/:vehicleId", call |-> "getServicesByVehicle", byId |-> "none"],
    [route |-> "GET /api/services/customer/:customerId", call |-> "getServicesByCustomer", byId |-> "none"] }

\* the ids of the table a route looks a row up in
RowIds(table) ==
  IF table = "customers" THEN Ids(customers)
  ELSE IF table = "vehicles" THEN Ids(vehicles)
  ELSE Ids(services)

GetRoute(session, read, id) ==
  IF requireAuth(session) # 0 THEN {Answer(requireAuth(session), <<>>)}
  ELSE {Answer(500, <<read.call>>),
        IF read.byId # "none" /\ id \notin RowIds(read.byId)
        THEN Answer(404, <<read.call>>)
        ELSE Answer(200, <<read.call>>)}

\* GET /api/vehicles/lookup/:plate after `const plateNumber = rawPlate.trim()`
LookupPlate(plateNumber) ==
  IF plateNumber = <<>> THEN {Answer(400, <<>>)}
  ELSE {Answer(500, <<"getVehicleByPlate">>)}
       \cup UNION {IF vehicle = NULL THEN {Answer(404, <<"getVehicleByPlate">>)}
                   ELSE {Answer(500, <<"getVehicleByPlate", "getCustomer">>),
                         Answer(500, <<"getVehicleByPlate", "getCustomer", "getServicesByVehicle">>),
                         Answer(200, <<"getVehicleByPlate", "getCustomer", "getServicesByVehicle">>)} :
                   vehicle \in getVehicleByPlate(toUpperCase(plateNumber))}

\* GET /api/vehicles/lookup/:plate
LookupVehicle(session, rawPlate) ==
  IF requireAuth(session) # 0 THEN {Answer(requireAuth(session), <<>>)}
  ELSE LookupPlate(trim(rawPlate))

(***************************************************************************)
(* Bounds and inputs                                                       *)
(***************************************************************************)
MaxVehicles == 5

MaxFleet == 6

Queries ==
  { <<>>,
    <<" ", "\t">>,
    <<"A","B","1","2">>,
    <<" ","a","b","1","2"," ">>,
    <<"A","_","1","2">>,
    <<"A","\\","_","1">>,
    <<"5","5","5","-","1","2","3","4">>,
    <<"5","5","5","1","2","3","4">>,
    <<"5","5","5","1","2","3","4","x">>,
    <<"S","a","m">>,
    <<"K","i","a">> }

Requests == {[given |-> TRUE, query |-> q] : q \in Queries} \cup {[given |-> FALSE, query |-> <<>>]}

NoResponse == [status |-> 0]

\* no request is being handled
NoRequest == [route |-> "none", session |-> Anonymous]

\* the next value of each serial id column, past every catalogued row
InitialSerial == [customers |-> 7, vehicles |-> 7, services |-> 4, media |-> 1]

\* no call of the scorer is in progress
NoScoring == [done |-> TRUE]

\* no call of a pattern builder or of the edit distance is in progress
NoCall == [fn |-> "none", done |-> TRUE]

Init ==
  /\ customers \in SUBSET CustomerCatalog
  /\ vehicles \in {vs \in SUBSET VehicleCatalog : Cardinality(vs) <= MaxVehicles}
  /\ services = {x \in ServiceCatalog : x.vehicleId \in Ids(vehicles)}
  /\ SchemaOk(customers, vehicles, services)
  /\ media = {}
  /\ uploads = {}
  /\ serial = InitialSerial
  /\ req = NoRequest
  /\ response = NoResponse
  /\ previous = NoResponse
  /\ inflight = {}
  /\ scoring = NoScoring
  /\ invocation = NoCall

\* one customer owning a fleet of vehicles
FleetOwner == CHOOSE c \in CustomerCatalog : c.id = 1

FleetVehicle(i) ==
  [id |-> 10 + i, customerId |-> FleetOwner.id,
   plateNumber |-> <<"F", "L", "0", <<"1","2","3","4","5","6","7","8","9">>[i]>>,
   make |-> Kia, model |-> Rio, createdAt |-> i]

\* another customer, whose name contains the fleet owner's, and that
\* customer's vehicle
FleetNeighbour == CHOOSE c \in CustomerCatalog : c.id = 3

NeighbourVehicle == CHOOSE v \in VehicleCatalog : v.customerId = FleetNeighbour.id

InitFleet ==
  /\ customers \in {{FleetOwner}, {FleetOwner, FleetNeighbour}}
  /\ \E n \in 0..MaxFleet, others \in SUBSET {NeighbourVehicle} :
       vehicles = {FleetVehicle(i) : i \in 1..n} \cup others
  /\ services = {}
  /\ SchemaOk(customers, vehicles, services)
  /\ media = {}
  /\ uploads = {}
  /\ serial = InitialSerial
  /\ req = NoRequest
  /\ response = NoResponse
  /\ previous = NoResponse
  /\ inflight = {}
  /\ scoring = NoScoring
  /\ invocation = NoCall

SearchClearingServices ==
  /\ response = NoResponse
  /\ previous = NoResponse
  /\ \E request \in Requests, session \in ReadSessions :
       /\ req' = [route |-> "GET /api/vehicles/search", session |-> session]
       /\ response' \in SearchVehicles(request, isAuthenticated(session))
  /\ services' = {}
  /\ UNCHANGED <<customers, vehicles, media, uploads, serial, previous, scoring, invocation, inflight>>

\* a caller sends GET /api/vehicles/search and the handler answers
Search ==
  /\ response = NoResponse
  /\ previous = NoResponse
  /\ \E request \in Requests, session \in ReadSessions :
       /\ req' = [route |-> "GET /api/vehicles/search", session |-> session]
       /\ response' \in SearchVehicles(request, isAuthenticated(session))
  /\ UNCHANGED <<store, previous, scoring, invocation, inflight>>

\* the caller of an answered search sends the identical request again
Repeat ==
  /\ response # NoResponse
  /\ response.status = 200
  /\ previous = NoResponse
  /\ previous' = response
  /\ response' \in SearchVehicles(response.request, isAuthenticated(req.session))
  /\ UNCHANGED <<store, req, scoring, invocation, inflight>>

\* the caller is done with the answer
Receive ==
  /\ response # NoResponse
  /\ response' = NoResponse
  /\ previous' = NoResponse
  /\ req' = NoRequest
  /\ UNCHANGED <<store, scoring, invocation, inflight>>

Next == Search \/ Receive

Spec == Init /\ [][Next]_vars

NextRepeat == Search \/ Repeat \/ Receive

SpecRepeat == Init /\ [][NextRepeat]_vars

NextFleet == Search \/ Receive

SpecFleet == InitFleet /\ [][NextFleet]_vars

\* a customer whose name is the digits of another customer's phone number
\* (customers.name is any non-empty text)
Namesake == [id |-> 5, phone |-> <<"8","8">>, name |-> <<"5","5","5","1","2","3","4">>]

NamesakeVehicle ==
  [id |-> 7, customerId |-> Namesake.id, plateNumber |-> <<"N","S","0","1">>,
   make |-> Kia, model |-> Rio, createdAt |-> 5]

\* a customer whose own name was entered as the digits of the phone number
SelfNamed ==
  [id |-> 1, phone |-> <<"5","5","5","-","1","2","3","4">>,
   name |-> <<"5","5","5","1","2","3","4">>]

InitNamesake ==
  /\ customers \in SUBSET {c \in CustomerCatalog \cup {Namesake, SelfNamed} : c.id \in {1, 5}}
  /\ vehicles \in SUBSET {v \in VehicleCatalog \cup {NamesakeVehicle} : v.customerId \in {1, 5}}
  /\ services = {x \in ServiceCatalog : x.vehicleId \in Ids(vehicles)}
  /\ SchemaOk(customers, vehicles, services)
  /\ media = {}
  /\ uploads = {}
  /\ serial = InitialSerial
  /\ req = NoRequest
  /\ response = NoResponse
  /\ previous = NoResponse
  /\ inflight = {}
  /\ scoring = NoScoring
  /\ invocation = NoCall

NextNamesake == Search \/ Receive

SpecNamesake == InitNamesake /\ [][NextNamesake]_vars

(***************************************************************************)
(* The API as a whole: requests of every session to every endpoint, one at *)
(* a time, on a store that the writing endpoints change.                   *)
(***************************************************************************)
MaxNew == 1

MaxFiles == 1

CatalogCustomer(id) == CHOOSE c \in CustomerCatalog : c.id = id

CatalogVehicle(id) == CHOOSE v \in VehicleCatalog : v.id = id

CustomerBodies ==
  { [phone |-> <<"5","5","5"," ","1","2","3","4">>, name |-> <<"S","a","m">>],
    [phone |-> CatalogCustomer(1).phone, name |-> <<"A","n","n">>],
    [phone |-> <<"1">>, name |-> <<>>] }

VehicleBodies ==
  { [customerId |-> 4, plateNumber |-> <<"a","b","1","2">>, make |-> Kia, model |-> Rio],
    [customerId |-> 1, plateNumber |-> <<"A","B","1","2">>, make |-> Kia, model |-> Rio],
    [customerId |-> 9, plateNumber |-> <<"Z","Z","9","9">>, make |-> Kia, model |-> Rio],
    [customerId |-> 1, plateNumber |-> <<>>, make |-> Kia, model |-> Rio] }

ServiceBodies ==
  { [plateNumber |-> <<" ","a","b","1","2">>, vehicleId |-> 0, customerId |-> 0, workPerformed |-> <<"o","i","l">>],
    [plateNumber |-> <<"Z","Z","9","9">>, vehicleId |-> 0, customerId |-> 0, workPerformed |-> <<"o","i","l">>],
    [plateNumber |-> <<>>, vehicleId |-> 6, customerId |-> 4, workPerformed |-> <<"o","i","l">>],
    [plateNumber |-> <<>>, vehicleId |-> 0, customerId |-> 0, workPerformed |-> <<"o","i","l">>],
    [plateNumber |-> <<"A","B","1","2">>, vehicleId |-> 0, customerId |-> 0, workPerformed |-> <<>>] }

\* the :id of a request: a catalogued row or a row that never existed
AskedIds == {1, 9}

RECURSIVE FileLists(_)
FileLists(n) ==
  IF n = 0 THEN {<<>>}
  ELSE FileLists(n - 1)
       \cup {Append(files, mimetype) : files \in {f \in FileLists(n - 1) : Len(f) = n - 1},
                                      mimetype \in {"image", "text"}}

InitApi ==
  /\ customers = {CatalogCustomer(1), CatalogCustomer(4)}
  /\ vehicles = {CatalogVehicle(1), CatalogVehicle(6)}
  /\ services = {x \in ServiceCatalog : x.vehicleId \in Ids(vehicles)}
  /\ SchemaOk(customers, vehicles, services)
  /\ media = {}
  /\ uploads = {}
  /\ serial = InitialSerial
  /\ req = NoRequest
  /\ response = NoResponse
  /\ previous = NoResponse
  /\ inflight = {}
  /\ scoring = NoScoring
  /\ invocation = NoCall

\* the handler of a route answers a request of a session with an outcome
Respond(route, session, outcome) ==
  /\ req' = [route |-> route, session |-> session]
  /\ response' = [status |-> outcome.status,
                  body |-> IF outcome.status \in {200, 201, 204} THEN "result" ELSE "error",
                  reads |-> outcome.calls]
  /\ customers' = outcome.customers
  /\ vehicles' = outcome.vehicles
  /\ services' = outcome.services
  /\ media' = outcome.media
  /\ uploads' = outcome.uploads
  /\ serial' = outcome.serial
  /\ UNCHANGED <<previous, scoring, invocation, inflight>>

Get ==
  /\ response = NoResponse
  /\ \E session \in ReadSessions, read \in ReadRoutes, id \in AskedIds :
       \E outcome \in GetRoute(session, read, id) : Respond(read.route, session, outcome)

Lookup ==
  /\ response = NoResponse
  /\ \E session \in ReadSessions, rawPlate \in {<<" ">>, <<"a","b","1","2">>, <<"Z","Z","9","9">>} :
       \E outcome \in LookupVehicle(session, rawPlate) :
         Respond("GET /api/vehicles/lookup/:plate", session, outcome)

CustomersPost ==
  /\ response = NoResponse
  /\ serial.customers < InitialSerial.customers + MaxNew
  /\ \E session \in Sessions, body \in CustomerBodies :
       \E outcome \in PostCustomer(session, body) :
         Respond("POST /api/customers", session, outcome)

CustomersPatch ==
  /\ response = NoResponse
  /\ \E session \in Sessions, id \in AskedIds, body \in CustomerBodies :
       \E outcome \in PatchCustomer(session, id, body) :
         Respond("PATCH /api/customers/:id", session, outcome)

CustomersDelete ==
  /\ response = NoResponse
  /\ \E session \in Sessions, id \in AskedIds :
       \E outcome \in DeleteCustomer(session, id) :
         Respond("DELETE /api/customers/:id", session, outcome)

VehiclesPost ==
  /\ response = NoResponse
  /\ serial.vehicles < InitialSerial.vehicles + MaxNew
  /\ \E session \in Sessions, body \in VehicleBodies :
       \E outcome \in PostVehicle(session, body) :
         Respond("POST /api/vehicles", session, outcome)

VehiclesPatch ==
  /\ response = NoResponse
  /\ \E session \in Sessions, id \in AskedIds, body \in VehicleBodies :
       \E outcome \in PatchVehicle(session, id, body) :
         Respond("PATCH /api/vehicles/:id", session, outcome)

VehiclesDelete ==
  /\ response = NoResponse
  /\ \E session \in Sessions, id \in AskedIds :
       \E outcome \in DeleteVehicle(session, id) :
         Respond("DELETE /api/vehicles/:id", session, outcome)

ServicesPost ==
  /\ response = NoResponse
  /\ serial.services < InitialSerial.services + MaxNew
  /\ \E session \in Sessions, body \in ServiceBodies, files \in FileLists(MaxFiles) :
       \E outcome \in PostService(session, body, files) :
         Respond("POST /api/services", session, outcome)

NextApi ==
  \/ Search
  \/ Get
  \/ Lookup
  \/ CustomersPost
  \/ CustomersPatch
  \/ CustomersDelete
  \/ VehiclesPost
  \/ VehiclesPatch
  \/ VehiclesDelete
  \/ ServicesPost
  \/ Receive

SpecApi == InitApi /\ [][NextApi]_vars

(***************************************************************************)
(* Concurrent customer writes.  The handler of POST /api/customers awaits  *)
(* getCustomerByPhone and then createCustomer: between the two statements  *)
(* the statements of other requests run.  A request that passed the check  *)
(* is in flight until its INSERT has run.  PATCH /api/customers/:id is one *)
(* statement.                                                              *)
(***************************************************************************)
MaxClients == 2

Clients == 1..MaxClients

\* POST /api/customers up to the answer of getCustomerByPhone; status 0: the
\* handler goes on to createCustomer
CheckCustomerPhone(session, body) ==
  IF requireRole(session, Editors) # 0 THEN {Answer(requireRole(session, Editors), <<>>)}
  ELSE IF ~ParsesCustomer(body) THEN {Answer(400, <<>>)}
  ELSE {Answer(400, <<"getCustomerByPhone">>)}
       \cup {IF existingCustomer # NULL THEN Answer(400, <<"getCustomerByPhone">>)
                                         ELSE Answer(0, <<"getCustomerByPhone">>) :
               existingCustomer \in getCustomerByPhone(body.phone)}

\* POST /api/customers from createCustomer on: the INSERT fails on
\* customers_phone_unique when the phone was taken in the meantime, and the
\* catch answers 400
InsertCustomer(body) ==
  {Answer(400, <<"getCustomerByPhone", "createCustomer">>)}
  \cup (IF PhoneTaken(0, body.phone) THEN {}
        ELSE {[Answer(201, <<"getCustomerByPhone", "createCustomer">>)
                 EXCEPT !.customers = createCustomer(body),
                        !.serial = Advance("customers")]})

\* the handler of a client's POST /api/customers answers
RespondTo(client, session, body, outcome) ==
  /\ req' = [route |-> "POST /api/customers", session |-> session, client |-> client,
             body |-> body]
  /\ response' = [status |-> outcome.status,
                  body |-> IF outcome.status = 201 THEN "result" ELSE "error",
                  reads |-> outcome.calls]
  /\ customers' = outcome.customers
  /\ serial' = outcome.serial
  /\ UNCHANGED <<vehicles, services, media, uploads, previous, scoring, invocation>>

\* a client sends POST /api/customers; the handler runs up to the answer of
\* the existence check
CustomersPostCheck ==
  /\ response = NoResponse
  /\ serial.customers < InitialSerial.customers + MaxClients
  /\ \E client \in Clients, session \in Sessions, body \in CustomerBodies :
       /\ \A r \in inflight : r.client # client
       /\ \E outcome \in CheckCustomerPhone(session, body) :
            IF outcome.status = 0
              THEN /\ inflight' = inflight \cup {[client |-> client, session |-> session,
                                                 body |-> body]}
                   /\ UNCHANGED <<store, req, response, previous, scoring, invocation>>
              ELSE /\ RespondTo(client, session, body, outcome)
                   /\ UNCHANGED inflight

\* the INSERT of a request in flight runs and the handler answers
CustomersPostInsert ==
  /\ response = NoResponse
  /\ \E r \in inflight :
       /\ inflight' = inflight \ {r}
       /\ \E outcome \in InsertCustomer(r.body) :
            RespondTo(r.client, r.session, r.body, outcome)

InitRace == InitApi

NextRace == CustomersPostCheck \/ CustomersPostInsert \/ CustomersPatch \/ Receive

SpecRace == InitRace /\ [][NextRace]_vars

(***************************************************************************)
(* A search among concurrent writes.  resolvePrimaryMatch,                 *)
(* buildLookupPayload and buildSuggestions await one storage read after    *)
(* the other; between two reads the statements of other requests run.  The *)
(* search in flight carries the locals of the handler and the read it      *)
(* awaits.                                                                 *)
(***************************************************************************)
InterleavedQueries == {<<"A","B","1","2">>, <<"5","5","5","1","2","3","4">>, <<"S","a","m">>}

\* the first read resolvePrimaryMatch awaits for a non-empty normalized term
FirstRead(normalizedTerm) ==
  IF isLikelyPlate(normalizedTerm) THEN "getVehicleByPlate"
  ELSE IF Len(normalizePhoneDigits(normalizedTerm)) >= 7 THEN "getCustomerByNormalizedPhone"
  ELSE "getCustomersByExactName"

\* the read awaited after the plate lookup found nothing
ReadAfterPlate(normalizedTerm) ==
  IF Len(normalizePhoneDigits(normalizedTerm)) >= 7 THEN "getCustomerByNormalizedPhone"
  ELSE "getCustomersByExactName"

\* the handler's locals when the request has passed requireAuth and the check
\* of the term
Started(request) ==
  [request |-> request, term |-> normalizeWhitespace(RawQuery(request)),
   at |-> FirstRead(normalizeWhitespace(RawQuery(request))),
   vehicle |-> NULL, customer |-> NULL, servicesOfVehicle |-> <<>>, awaited |-> {},
   owners |-> <<>>, single |-> FALSE, reason |-> "none", after |-> "none",
   seedSuggestions |-> <<>>, via |-> "none", reads |-> <<>>]

\* `return { match: await buildLookupPayload(vehicle), seedSuggestions }`
Resolving(r, vehicle, step, call) ==
  [r EXCEPT !.at = "buildLookupPayload", !.vehicle = vehicle, !.via = step,
            !.awaited = {"getCustomer", "getServicesByVehicle"},
            !.reads = Append(@, call)]

\* the loop over the owners' vehicles is entered for the next owner, or left
\* for the read that follows it
NextOwner(r, seeds, rest) ==
  [r EXCEPT !.seedSuggestions = @ \o seeds, !.owners = rest,
            !.at = IF rest = <<>> THEN r.after ELSE "getVehiclesByCustomer",
            !.reads = Append(@, "getVehiclesByCustomer")]

\* the search in flight goes on with the locals `next`
Continue(r, next) ==
  /\ inflight' = (inflight \ {r}) \cup {next}
  /\ UNCHANGED <<store, req, response, previous, scoring, invocation>>

\* an authenticated caller sends GET /api/vehicles/search with a term
SearchArrives ==
  /\ inflight = {}
  /\ \E query \in InterleavedQueries :
       inflight' = {Started([given |-> TRUE, query |-> query])}
  /\ UNCHANGED <<store, req, response, previous, scoring, invocation>>

AwaitVehicleByPlate ==
  \E r \in inflight :
    /\ r.at = "getVehicleByPlate"
    /\ \E vehicle \in getVehicleByPlate(toUpperCase(r.term)) :
         Continue(r, IF vehicle # NULL
                     THEN Resolving(r, vehicle, "plate", "getVehicleByPlate")
                     ELSE [r EXCEPT !.at = ReadAfterPlate(r.term),
                                    !.reads = Append(@, "getVehicleByPlate")])

AwaitCustomerByNormalizedPhone ==
  \E r \in inflight :
    /\ r.at = "getCustomerByNormalizedPhone"
    /\ \E customer \in getCustomerByNormalizedPhone(normalizePhoneDigits(r.term)) :
         Continue(r, IF customer # NULL
                     THEN [r EXCEPT !.at = "getVehiclesByCustomer", !.owners = <<customer>>,
                                    !.single = TRUE, !.reason = "phone",
                                    !.after = "getCustomersByExactName",
                                    !.reads = Append(@, "getCustomerByNormalizedPhone")]
                     ELSE [r EXCEPT !.at = "getCustomersByExactName",
                                    !.reads = Append(@, "getCustomerByNormalizedPhone")])

AwaitCustomersByExactName ==
  \E r \in inflight :
    /\ r.at = "getCustomersByExactName"
    /\ \E customersByName \in getCustomersByExactName(r.term) :
         Continue(r, IF customersByName = <<>>
                     THEN [r EXCEPT !.at = "searchVehicleCandidates",
                                    !.reads = Append(@, "getCustomersByExactName")]
                     ELSE [r EXCEPT !.at = "getVehiclesByCustomer",
                                    !.owners = customersByName,
                                    !.single = (Len(customersByName) = 1),
                                    !.reason = "name",
                                    !.after = "searchVehicleCandidates",
                                    !.reads = Append(@, "getCustomersByExactName")])

AwaitVehiclesByCustomer ==
  \E r \in inflight :
    /\ r.at = "getVehiclesByCustomer"
    /\ \E vehiclesForCustomer \in getVehiclesByCustomer(Head(r.owners).id) :
         Continue(r, IF r.single /\ Len(vehiclesForCustomer) = 1
                     THEN Resolving(r, vehiclesForCustomer[1], r.reason, "getVehiclesByCustomer")
                     ELSE NextOwner(r, SeedsOf(vehiclesForCustomer, Head(r.owners), r.reason),
                                    Tail(r.owners)))

\* one of the two reads of buildLookupPayload's Promise.all answers
PayloadRead(r, call) ==
  [r EXCEPT !.awaited = @ \ {call},
            !.at = IF r.awaited = {call} THEN "searchVehicleCandidates" ELSE @]

AwaitCustomer ==
  \E r \in inflight :
    /\ r.at = "buildLookupPayload"
    /\ "getCustomer" \in r.awaited
    /\ \E customer \in getCustomer(r.vehicle.customerId) :
         Continue(r, [PayloadRead(r, "getCustomer") EXCEPT !.customer = customer])

AwaitServicesByVehicle ==
  \E r \in inflight :
    /\ r.at = "buildLookupPayload"
    /\ "getServicesByVehicle" \in r.awaited
    /\ \E servicesOfVehicle \in getServicesByVehicle(r.vehicle.id) :
         Continue(r, [PayloadRead(r, "getServicesByVehicle")
                        EXCEPT !.servicesOfVehicle = servicesOfVehicle])

\* what resolvePrimaryMatch returned to the handler
ResolvedBy(r) ==
  [match |-> IF r.vehicle = NULL THEN NULL
             ELSE [vehicle |-> r.vehicle, customer |-> r.customer,
                   services |-> r.servicesOfVehicle],
   seedSuggestions |-> r.seedSuggestions, via |-> r.via,
   reads |-> IF r.vehicle = NULL THEN r.reads
             ELSE r.reads \o <<"getCustomer", "getServicesByVehicle">>]

\* the handler answers the search in flight
AnswerSearch(r, answer) ==
  /\ response = NoResponse
  /\ inflight' = inflight \ {r}
  /\ req' = [route |-> "GET /api/vehicles/search",
             session |-> [authenticated |-> TRUE, role |-> "viewer"]]
  /\ response' = answer
  /\ UNCHANGED <<store, previous, scoring, invocation>>

\* buildSuggestions awaits the fetcher, and the handler sends res.json
AwaitCandidates ==
  \E r \in inflight :
    /\ r.at = "searchVehicleCandidates"
    /\ \E fetchedCandidates \in searchVehicleCandidates(r.term, FetchLimit(r.seedSuggestions)) :
         \E answer \in Responses(r.request, {SearchRun(r.term, ResolvedBy(r), fetchedCandidates)}) :
           answer.status = 200 /\ AnswerSearch(r, answer)

\* the read the search awaits throws: the handler's catch answers 500
ReadFails ==
  \E r \in inflight :
    AnswerSearch(r, ErrorResponse(500, r.request, r.reads))

InitInterleaved == InitApi

NextInterleaved ==
  \/ SearchArrives
  \/ AwaitVehicleByPlate
  \/ AwaitCustomerByNormalizedPhone
  \/ AwaitCustomersByExactName
  \/ AwaitVehiclesByCustomer
  \/ AwaitCustomer
  \/ AwaitServicesByVehicle
  \/ AwaitCandidates
  \/ ReadFails
  \/ CustomersPost
  \/ CustomersPatch
  \/ CustomersDelete
  \/ VehiclesPost
  \/ VehiclesPatch
  \/ VehiclesDelete
  \/ Receive

SpecInterleaved == InitInterleaved /\ [][NextInterleaved]_vars

(***************************************************************************)
(* The scorer on its own: computeCandidateScore is called with any term,   *)
(* any digits-only term and any candidate.                                 *)
(***************************************************************************)
ScoreTerms ==
  { <<>>,
    <<"B","C","1","2","3">>,
    <<"A","B","C","1","2","3","4">>,
    <<"A","B","1","2","X">>,
    <<"K","I","A">>,
    <<"K","I","A"," ","R","I","O">>,
    <<"S","A","M">>,
    <<"X","Y","Z">>,
    <<"5","5","5","1","2","3","4">> }

ScoreDigitTerms ==
  { <<>>, <<"1","2","3">>, <<"5","5","5","1","2","3","4">>, <<"9","9","9","9","9","9","9","9","9">> }

ScorePlates == { <<>>, <<"A","B","1","2">>, <<"a","b","c","1","2","3","4">> }

ScoreCustomers ==
  { NULL,
    [id |-> 1, phone |-> <<"5","5","5","-","1","2","3","4">>, name |-> <<"S","a","m">>],
    [id |-> 2, phone |-> <<>>, name |-> <<>>] }

ScoreEntries ==
  {[vehicle |-> [id |-> 1, customerId |-> customer.id, plateNumber |-> plate,
                 make |-> label[1], model |-> label[2], createdAt |-> 1],
    customer |-> customer] :
     plate \in ScorePlates, label \in {<<Kia, Rio>>, <<<<>>, <<>>>>}, customer \in ScoreCustomers}

InitScore ==
  /\ customers = {}
  /\ vehicles = {}
  /\ services = {}
  /\ media = {}
  /\ uploads = {}
  /\ serial = InitialSerial
  /\ req = NoRequest
  /\ response = NoResponse
  /\ previous = NoResponse
  /\ inflight = {}
  /\ \E normalizedTerm \in ScoreTerms, digitOnlyTerm \in ScoreDigitTerms, entry \in ScoreEntries :
       scoring = [done |-> FALSE, normalizedTerm |-> normalizedTerm,
                  digitOnlyTerm |-> digitOnlyTerm, entry |-> entry, score |-> <<0, 1>>]
  /\ invocation = NoCall

\* the call returns
Score ==
  /\ ~scoring.done
  /\ scoring' = [scoring EXCEPT !.done = TRUE,
                                !.score = computeCandidateScore(scoring.normalizedTerm,
                                                                scoring.digitOnlyTerm,
                                                                scoring.entry)]
  /\ UNCHANGED <<store, req, response, previous, invocation, inflight>>

NextScore == Score

SpecScore == InitScore /\ [][NextScore]_vars

(***************************************************************************)
(* The pattern builders on their own: buildFuzzyPatterns and               *)
(* buildDigitPatterns are called with any value.                           *)
(***************************************************************************)
MaxPatternLen == 4

PatternAlphabet == {"A", "b", "1", " ", "_", "\\"}

RECURSIVE StringsUpTo(_, _)
StringsUpTo(alphabet, n) ==
  IF n = 0 THEN {<<>>}
  ELSE {<<>>} \cup {<<c>> \o rest : c \in alphabet, rest \in StringsUpTo(alphabet, n - 1)}

PatternValues ==
  StringsUpTo(PatternAlphabet, MaxPatternLen)
    \cup { <<"K","I","A"," ","R","I","O">>,
           <<" ","A","B"," "," ","C","D","E","\t">>,
           <<"5","5","5","-","1","2","3","4">>,
           <<"1","0","0","%">>,
           <<"A","B","C","1","2","3","4">> }

InitPatterns ==
  /\ customers = {}
  /\ vehicles = {}
  /\ services = {}
  /\ media = {}
  /\ uploads = {}
  /\ serial = InitialSerial
  /\ req = NoRequest
  /\ response = NoResponse
  /\ previous = NoResponse
  /\ inflight = {}
  /\ scoring = NoScoring
  /\ \E value \in PatternValues :
       invocation = [fn |-> "buildPatterns", done |-> FALSE, value |-> value,
               fuzzy |-> {}, digit |-> {}]

\* both builders return
BuildPatterns ==
  /\ invocation.fn = "buildPatterns"
  /\ ~invocation.done
  /\ invocation' = [invocation EXCEPT !.done = TRUE,
                          !.fuzzy = buildFuzzyPatterns(invocation.value),
                          !.digit = buildDigitPatterns(invocation.value)]
  /\ UNCHANGED <<store, req, response, previous, scoring, inflight>>

NextPatterns == BuildPatterns

SpecPatterns == InitPatterns /\ [][NextPatterns]_vars

(***************************************************************************)
(* The candidate fetcher on its own: searchVehicleCandidates is called     *)
(* with any term and limit on a store of one customer's vehicles, created  *)
(* one after the other.                                                    *)
(***************************************************************************)
MaxRows == 32

FetchTerms ==
  { <<>>,
    <<" ">>,
    <<"F">>,
    <<"Z","Z","Z">>,
    <<"F","0","1"," ","K","i","a">>,
    <<"5","5","5","1","2","3","4">>,
    <<"S","a","m">> }

FetchLimits == {0, 2, 5, 7}

Numerals == <<"0", "1", "2", "3", "4", "5", "6", "7", "8", "9">>

TwoDigits(i) == <<Numerals[(i \div 10) + 1], Numerals[(i % 10) + 1]>>

FetchVehicle(i) ==
  [id |-> 20 + i, customerId |-> FleetOwner.id, plateNumber |-> <<"F">> \o TwoDigits(i),
   make |-> Kia, model |-> Rio, createdAt |-> i]

InitFetch ==
  /\ customers = {FleetOwner}
  /\ vehicles \in {vs \in {{FetchVehicle(i) : i \in 1..n} : n \in 0..MaxRows} :
                       SchemaOk({FleetOwner}, vs, {})}
  /\ services = {}
  /\ media = {}
  /\ uploads = {}
  /\ serial = InitialSerial
  /\ req = NoRequest
  /\ response = NoResponse
  /\ previous = NoResponse
  /\ inflight = {}
  /\ scoring = NoScoring
  /\ \E term \in FetchTerms, limit \in FetchLimits :
       invocation = [fn |-> "searchVehicleCandidates", done |-> FALSE, term |-> term,
                     limit |-> limit, queried |-> FALSE, rawResults |-> <<>>,
                     candidates |-> <<>>]

\* the call returns
Fetch ==
  /\ invocation.fn = "searchVehicleCandidates"
  /\ ~invocation.done
  /\ \E run \in FetchRuns(trim(invocation.term), invocation.limit) :
       invocation' = [invocation EXCEPT !.done = TRUE,
                                        !.queried = run.queried,
                                        !.rawResults = run.rawResults,
                                        !.candidates = run.candidates]
  /\ UNCHANGED <<store, req, response, previous, scoring, inflight>>

NextFetch == Fetch

SpecFetch == InitFetch /\ [][NextFetch]_vars

(***************************************************************************)
(* The edit distance on its own: levenshteinDistance is called with any    *)
(* two strings, and the scorer normalizes the result.                      *)
(***************************************************************************)
MaxEditLen == 3

EditAlphabet == {"A", "B", "C"}

EditStrings == StringsUpTo(EditAlphabet, MaxEditLen)

InitDistance ==
  /\ customers = {}
  /\ vehicles = {}
  /\ services = {}
  /\ media = {}
  /\ uploads = {}
  /\ serial = InitialSerial
  /\ req = NoRequest
  /\ response = NoResponse
  /\ previous = NoResponse
  /\ inflight = {}
  /\ scoring = NoScoring
  /\ \E a \in EditStrings, b \in EditStrings :
       invocation = [fn |-> "levenshteinDistance", done |-> FALSE, a |-> a, b |-> b,
                     distance |-> 0, normalizedDistance |-> <<0, 1>>]

\* the call returns and the scorer divides by the longer length
Measure ==
  /\ invocation.fn = "levenshteinDistance"
  /\ ~invocation.done
  /\ invocation' = [invocation EXCEPT
                      !.done = TRUE,
                      !.distance = levenshteinDistance(invocation.a, invocation.b),
                      !.normalizedDistance = NormalizedDistance(invocation.a, invocation.b)]
  /\ UNCHANGED <<store, req, response, previous, scoring, inflight>>

NextDistance == Measure

SpecDistance == InitDistance /\ [][NextDistance]_vars

(***************************************************************************)
(* Properties of the search response                                       *)
(***************************************************************************)
Answered == response.status = 200

IdsOf(entries) == {entries[i].vehicle.id : i \in 1..Len(entries)}

\* C1: self-exclusion.  The vehicle returned in `match` never appears in
\* `suggestions`, whether it was a seed or a fetched candidate.
SelfExclusion ==
  (Answered /\ response.match # NULL) =>
    response.match.vehicle.id \notin IdsOf(response.suggestions)

\* a vehicle was matched and the fetcher returned that same vehicle
SelfExclusionWitness ==
  /\ Answered
  /\ response.match # NULL
  /\ response.match.vehicle.id \in IdsOf(response.fetched)
  /\ response.suggestions # <<>>

\* C2: bound respected.  `suggestions` never has more than the limit of 5
\* entries, also when there are more than 5 seeds or more than 5 candidates.
BoundRespected ==
  Answered => Len(response.suggestions) <= VEHICLE_SUGGESTION_LIMIT

\* the resolver produced more than 5 seeds and exactly 5 were returned
BoundRespectedWitness ==
  /\ Answered
  /\ Len(response.seeds) > VEHICLE_SUGGESTION_LIMIT
  /\ Len(response.fetched) > VEHICLE_SUGGESTION_LIMIT
  /\ Len(response.suggestions) = VEHICLE_SUGGESTION_LIMIT

\* the normalized term of the answered request
SearchTerm == normalizeWhitespace(RawQuery(response.request))

SameIgnoringCase(a, b) == toUpperCase(a) = toUpperCase(b)

\* C3: plate priority.  For a plate-like term that equals the plate of an
\* existing vehicle ignoring case (and of no second one), `match` is exactly
\* that vehicle, whatever else the store holds.
PlatePriority ==
  (Answered /\ isLikelyPlate(SearchTerm)) =>
    \A v \in vehicles :
      (/\ SameIgnoringCase(v.plateNumber, SearchTerm)
       /\ \A other \in vehicles : SameIgnoringCase(other.plateNumber, SearchTerm) => other = v) =>
        response.match # NULL /\ response.match.vehicle = v

\* C4: the plate step is an exact match.  A match resolved through the plate
\* step has a plate equal to the normalized term ignoring case; `%` and `_` of
\* the term never resolve to a vehicle with a different plate.
PlateStepExact ==
  (Answered /\ response.via = "plate") =>
    SameIgnoringCase(response.match.vehicle.plateNumber, SearchTerm)

\* the literal strings buildFuzzyPatterns turns into patterns
FuzzyLiterals(value) ==
  LET normalized == trim(value)
  IN  IF normalized = <<>> THEN {}
      ELSE {normalized} \cup DeletionVariants(normalized) \cup Tokens(normalized)

LiterallyContains(row, literal) ==
  LET Holds(field) == includes(toUpperCase(field), toUpperCase(literal))
  IN  \/ Holds(row.vehicle.plateNumber)
      \/ Holds(row.vehicle.make)
      \/ Holds(row.vehicle.model)
      \/ row.customer # NULL /\ Holds(row.customer.name)

\* C5: escaping in the candidate fetcher.  A row returned through a text
\* pattern (and through no digit pattern) has a plate, make, model or owner name that literally contains the
\* term, one of its deletion variants or one of its tokens, ignoring case.
EscapedLiterally ==
  Answered =>
    \A i \in 1..Len(response.fetched) :
      (/\ \E pattern \in buildFuzzyPatterns(SearchTerm) :
            TextCondition(response.fetched[i], pattern)
       /\ \A pattern \in buildDigitPatterns(SearchTerm) :
            ~DigitCondition(response.fetched[i], pattern)) =>
      (\E literal \in FuzzyLiterals(SearchTerm) :
         LiterallyContains(response.fetched[i], literal))

OwnedBy(owners) == {v \in vehicles : v.customerId \in Ids(owners)}

AllTagged(entries, reason) == \A i \in 1..Len(entries) : entries[i].reason = reason

\* C6: cardinality guard (phone).  When the term is the exact phone string of
\* a customer whose phone has at least 7 digits and who owns k vehicles,
\* 2 <= k <= limit, the answer has no match and exactly k suggestions, all
\* tagged `phone`, covering exactly that customer's vehicles.
PhoneCardinalityGuard ==
  Answered =>
    \A c \in customers :
      LET owned == OwnedBy({c})
      IN  (/\ SearchTerm = c.phone
           /\ Len(normalizePhoneDigits(c.phone)) >= 7
           /\ Cardinality(owned) >= 2
           /\ Cardinality(owned) <= VEHICLE_SUGGESTION_LIMIT) =>
            /\ response.match = NULL
            /\ Len(response.suggestions) = Cardinality(owned)
            /\ AllTagged(response.suggestions, "phone")
            /\ IdsOf(response.suggestions) = Ids(owned)

\* the customers whose name equals the term ignoring case
Named == {c \in customers : SameIgnoringCase(c.name, SearchTerm)}

\* C7 as stated: when the term equals the name of two or more customers who
\* together own n <= limit vehicles, the answer has no match and exactly n
\* suggestions in total, all tagged `name`.
NameAmbiguityExactly ==
  (Answered /\ Cardinality(Named) >= 2
            /\ Cardinality(OwnedBy(Named)) <= VEHICLE_SUGGESTION_LIMIT) =>
    /\ response.match = NULL
    /\ Len(response.suggestions) = Cardinality(OwnedBy(Named))
    /\ AllTagged(response.suggestions, "name")

\* C7: name ambiguity.  When a term that is not plate-like and has fewer than
\* 7 digits equals the name of two or more customers who together own
\* n <= limit vehicles, the answer has no match and its first n suggestions
\* are exactly those n vehicles, each tagged `name`; candidates of the fetcher
\* may follow them up to the limit.
NameAmbiguity ==
  (/\ Answered
   /\ ~isLikelyPlate(SearchTerm)
   /\ Len(normalizePhoneDigits(SearchTerm)) < 7
   /\ Cardinality(Named) >= 2
   /\ Cardinality(OwnedBy(Named)) <= VEHICLE_SUGGESTION_LIMIT) =>
    LET n == Cardinality(OwnedBy(Named))
    IN  /\ response.match = NULL
        /\ n <= Len(response.suggestions)
        /\ Len(response.suggestions) <= VEHICLE_SUGGESTION_LIMIT
        /\ IdsOf(Take(response.suggestions, n)) = Ids(OwnedBy(Named))
        /\ AllTagged(Take(response.suggestions, n), "name")
        /\ IdsOf(response.suggestions) \subseteq Ids(OwnedBy(Named)) \cup IdsOf(response.fetched)

\* two customers share the name, own three vehicles, and a fourth suggestion
\* came from the fetcher
NameAmbiguityWitness ==
  /\ Answered
  /\ Cardinality(Named) = 2
  /\ Cardinality(OwnedBy(Named)) = 3
  /\ response.via = "none"
  /\ Len(response.seeds) = 3
  /\ Len(response.suggestions) = 4

\* a phone term: digits with punctuation and spacing only
IsPhoneTerm(term) ==
  /\ hasDigits(term)
  /\ \A i \in 1..Len(term) : IsDigit(term[i]) \/ term[i] \in {"-", " ", "(", ")", ".", "+"}

\* C8: digit-format invariance.  Two phone terms with the same digits-only
\* projection get identical results on the same store: whatever match and
\* suggestions one of them is answered with, the other is answered with too.
DigitFormatInvariance ==
  (Answered /\ IsPhoneTerm(SearchTerm)) =>
    \A other \in Queries :
      (/\ IsPhoneTerm(normalizeWhitespace(other))
       /\ normalizePhoneDigits(other) = normalizePhoneDigits(SearchTerm)) =>
        \E run \in SearchRuns(normalizeWhitespace(other)) :
          /\ run.match = response.match
          /\ run.suggestions = response.suggestions

\* C9: determinism.  Two executions of the search with the same term on the
\* same store return the same match and the same suggestions in the same
\* order.
Deterministic ==
  (previous # NoResponse /\ Answered) =>
    /\ response.match = previous.match
    /\ response.suggestions = previous.suggestions

\* C10: invalid input.  A search whose term is missing, empty or
\* whitespace-only that passed requireAuth is answered with status 400 and an
\* error body, never as a result, and reads nothing from the store.
InvalidInputRejected ==
  (response # NoResponse /\ response.status # 401 /\ SearchTerm = <<>>) =>
    /\ response.status = 400
    /\ response.body = "error"
    /\ response.reads = <<>>

\* a whitespace-only term was rejected
InvalidInputRejectedWitness ==
  /\ response.status = 400
  /\ response.request.given
  /\ response.request.query # <<>>
  /\ trim(response.request.query) = <<>>

(***************************************************************************)
(* Properties of the scorer                                                *)
(***************************************************************************)
Scored == scoring # NoScoring /\ scoring.done

\* the comparison strings of a candidate: its uppercased plate, "make model"
\* and owner name, those of them that are not empty
ComparisonStrings(entry) ==
  {toUpperCase(text) :
     text \in {entry.vehicle.plateNumber,
               trim(entry.vehicle.make \o <<" ">> \o entry.vehicle.model)}
              \cup (IF entry.customer = NULL THEN {} ELSE {entry.customer.name})} \ {<<>>}

AtLeast(score, bound) == ~RatLess(score, bound)

\* C11: containment bonus.  For a non-empty uppercased term and any candidate,
\* if the term is a substring of one of the candidate's comparison strings or
\* that string is a substring of the term, the score is at least 0.95.
ContainmentScore ==
  (/\ Scored
   /\ scoring.normalizedTerm # <<>>
   /\ \E value \in ComparisonStrings(scoring.entry) :
        includes(value, scoring.normalizedTerm) \/ includes(scoring.normalizedTerm, value)) =>
    AtLeast(scoring.score, <<95, 100>>)

\* plate `ABC1234` was scored against term `BC123`, which matches nothing else
\* of the candidate, and the score is below 1
ContainmentScoreWitness ==
  /\ Scored
  /\ scoring.normalizedTerm = <<"B","C","1","2","3">>
  /\ scoring.digitOnlyTerm = <<"1","2","3">>
  /\ ComparisonStrings(scoring.entry) = {<<"A","B","C","1","2","3","4">>}
  /\ AtLeast(scoring.score, <<95, 100>>)
  /\ RatLess(scoring.score, <<1, 1>>)

\* C12: score range.  For every term, digits-only term and candidate the
\* score lies in [0, 1]; it is 0 when both terms are empty and 1 when the
\* uppercased term equals one of the candidate's comparison strings.
ScoreRange ==
  Scored =>
    /\ scoring.score[2] > 0
    /\ AtLeast(scoring.score, <<0, 1>>)
    /\ AtLeast(<<1, 1>>, scoring.score)
    /\ (scoring.normalizedTerm = <<>> /\ scoring.digitOnlyTerm = <<>>) =>
         RatEq(scoring.score, <<0, 1>>)
    /\ scoring.normalizedTerm \in ComparisonStrings(scoring.entry) =>
         RatEq(scoring.score, <<1, 1>>)

\* a candidate without a customer scored strictly between 0 and 1
ScoreRangeWitness ==
  /\ Scored
  /\ scoring.entry.customer = NULL
  /\ scoring.normalizedTerm # <<>>
  /\ RatLess(<<0, 1>>, scoring.score)
  /\ RatLess(scoring.score, <<95, 100>>)

(***************************************************************************)
(* Properties of the suggestion list                                       *)
(***************************************************************************)
\* the score the fetcher gives an entry for the term of the answered request
FetchScore(entry) ==
  computeCandidateScore(toUpperCase(SearchTerm), normalizePhoneDigits(SearchTerm),
                        [vehicle |-> entry.vehicle, customer |-> entry.customer])

\* the entry is one of the resolver's seeds
IsSeed(entry) == entry.vehicle.id \in IdsOf(response.seeds)

\* the positions of the fetched candidates that are neither the match nor a seed
Eligible ==
  {i \in 1..Len(response.fetched) :
     /\ ~IsSeed(response.fetched[i])
     /\ response.fetched[i].vehicle.id # MatchVehicleId(response.match)}

RankingTieWitness ==
  /\ Answered
  /\ \E i \in 1..Len(response.suggestions), j \in 1..Len(response.suggestions) :
       /\ i < j
       /\ ~IsSeed(response.suggestions[i])
       /\ ~IsSeed(response.suggestions[j])
       /\ RatEq(FetchScore(response.suggestions[j]), FetchScore(response.suggestions[i]))
       /\ response.suggestions[i].vehicle.createdAt > response.suggestions[j].vehicle.createdAt

\* the term is a substring of the text, ignoring case
TermWithin(text) == includes(toUpperCase(text), toUpperCase(SearchTerm))

\* the first reason that holds for an entry, in the order plate, phone, name,
\* vehicle, partial
FirstReason(entry) ==
  IF TermWithin(entry.vehicle.plateNumber) THEN "plate"
  ELSE IF /\ normalizePhoneDigits(SearchTerm) # <<>>
          /\ entry.customer # NULL
          /\ includes(normalizePhoneDigits(entry.customer.phone),
                      normalizePhoneDigits(SearchTerm)) THEN "phone"
  ELSE IF entry.customer # NULL /\ TermWithin(entry.customer.name) THEN "name"
  ELSE IF TermWithin(entry.vehicle.make) \/ TermWithin(entry.vehicle.model) THEN "vehicle"
  ELSE "partial"

\* C14: reason classification.  Every fetched candidate that ends up in the
\* suggestions carries the first reason that holds in the order plate (term
\* within the plate), phone (the term's digits within the owner's phone
\* digits), name (term within the owner's name), vehicle (term within make or
\* model), partial.
ReasonClassification ==
  Answered =>
    \A i \in 1..Len(response.suggestions) :
      ~IsSeed(response.suggestions[i]) =>
        response.suggestions[i].reason = FirstReason(response.suggestions[i])

\* one answer holds a fetched candidate tagged `phone` and one tagged `partial`
ReasonClassificationWitness ==
  /\ Answered
  /\ \E i \in 1..Len(response.suggestions), j \in 1..Len(response.suggestions) :
       /\ ~IsSeed(response.suggestions[i])
       /\ ~IsSeed(response.suggestions[j])
       /\ response.suggestions[i].reason = "phone"
       /\ response.suggestions[j].reason = "partial"

(***************************************************************************)
(* Properties of the API                                                   *)
(***************************************************************************)
\* the rows of the record store and the files of the upload directory
contents == <<customers, vehicles, services, media, uploads>>

\* C15: read-only lookup.  A step that answers a search, with a result or
\* with an error, leaves customers, vehicles, services and media (and the
\* upload directory) as they were, so repeated searches add up to nothing.
SearchReadOnly ==
  [][(req'.route = "GET /api/vehicles/search" /\ response' # NoResponse) =>
       UNCHANGED contents]_vars

\* a search was answered with a match on a store that a write had changed
SearchReadOnlyWitness ==
  /\ req.route = "GET /api/vehicles/search"
  /\ response.status = 200
  /\ response.match # NULL
  /\ serial # InitialSerial

\* C16: no partial output on failure.  A response that is not a result is an
\* error body without match and suggestions; a result's reads end with the
\* candidate fetch and its suggestions are those built from the candidates of
\* that completed fetch.
NoPartialOutput ==
  response # NoResponse =>
    /\ response.status # 200 =>
         /\ response.body = "error"
         /\ response.match = NULL
         /\ response.suggestions = <<>>
    /\ response.status = 200 =>
         /\ response.body = "result"
         /\ response.reads # <<>>
         /\ response.reads[Len(response.reads)] = "searchVehicleCandidates"
         /\ \A i \in 1..(Len(response.reads) - 1) :
              response.reads[i] # "searchVehicleCandidates"
         /\ response.suggestions = buildSuggestions(SearchTerm, MatchVehicleId(response.match),
                                                    response.seeds, response.fetched)
         /\ IdsOf(response.fetched) \subseteq Ids(vehicles)

\* the candidate fetch failed after the resolver had found the match
NoPartialOutputWitness ==
  /\ response.status = 500
  /\ response.reads = <<"getVehicleByPlate", "getCustomer", "getServicesByVehicle",
                        "searchVehicleCandidates">>

MutatingRoutes ==
  {"POST /api/customers", "PATCH /api/customers/:id", "DELETE /api/customers/:id",
   "POST /api/vehicles", "PATCH /api/vehicles/:id", "DELETE /api/vehicles/:id",
   "POST /api/services"}

\* C17: role gate.  Every answer to a request to a mutating endpoint is 401
\* for an unauthenticated caller and 403 for an authenticated caller who is
\* neither admin nor mechanic, the record store and the upload directory
\* staying as they were; every other endpoint answers an unauthenticated
\* caller with 401 and without a storage call.
RoleGate ==
  [][(response' # NoResponse /\ response' # response) =>
       /\ (req'.route \in MutatingRoutes /\ ~req'.session.authenticated) =>
            (response'.status = 401 /\ UNCHANGED contents)
       /\ (/\ req'.route \in MutatingRoutes
           /\ req'.session.authenticated
           /\ req'.session.role \notin {"admin", "mechanic"}) =>
            (response'.status = 403 /\ UNCHANGED contents)
       /\ (req'.route \notin MutatingRoutes /\ ~req'.session.authenticated) =>
            (response'.status = 401 /\ response'.reads = <<>> /\ UNCHANGED contents)]_vars

\* a viewer was refused the creation of a service after an editor had created
\* a customer
RoleGateWitness ==
  /\ req.route = "POST /api/services"
  /\ req.session.role = "viewer"
  /\ response.status = 403
  /\ serial.customers # InitialSerial.customers

(***************************************************************************)
(* Properties of the resolver                                              *)
(***************************************************************************)
\* the customers whose digits-only phone equals the digits of the term
PhoneOwners ==
  {c \in customers : normalizePhoneDigits(c.phone) = normalizePhoneDigits(SearchTerm)}

ResolvesTheOnlyVehicleOf(owners) ==
  /\ Cardinality(owners) = 1
  /\ OwnedBy(owners) = {response.match.vehicle}

\* C18: automatic resolution only on a literal single vehicle.  A match
\* resolved through the phone step is the only vehicle of the only customer
\* whose digits-only phone equals the term's digits, and a match resolved
\* through the name step is the only vehicle of the only customer with that
\* name; when two customers' phones normalize to the same digits, nothing is
\* resolved by phone.
SingleVehicleResolution ==
  Answered =>
    /\ response.via = "phone" => ResolvesTheOnlyVehicleOf(PhoneOwners)
    /\ response.via = "name" => ResolvesTheOnlyVehicleOf(Named)

\* C19: the resolver's output has one of two shapes.  Whenever the resolver
\* returns a match its seed suggestion list is empty; seed suggestions come
\* only with `match: null`, also for a term with at least 7 digits whose phone
\* owner has several vehicles and which is the exact name of a customer owning
\* one vehicle.
TwoShapes ==
  Answered => (response.match = NULL \/ response.seeds = <<>>)

\* the positions of a storage call among the reads of the answered request
Positions(call) == {i \in 1..Len(response.reads) : response.reads[i] = call}

Consulted(call) == Positions(call) # {}

Before(first, second) ==
  \A i \in Positions(first), j \in Positions(second) : i < j

\* C20: strict priority order, first success wins.  The plate lookup is
\* consulted first and only for plate-like terms; the phone lookup is consulted
\* next, only when the term has at least 7 digits and the plate level did not
\* resolve; the exact-name lookup is consulted last, only when neither earlier
\* level resolved.  A match resolved by phone is a vehicle of a customer whose
\* phone digits are the term's, whatever the name level would have found, and
\* a term with fewer than 7 digits causes no phone lookup and no seed tagged
\* `phone`.
PriorityOrder ==
  Answered =>
    /\ Consulted("getVehicleByPlate") <=> isLikelyPlate(SearchTerm)
    /\ Positions("getVehicleByPlate") \subseteq {1}
    /\ Consulted("getCustomerByNormalizedPhone") <=>
         (response.via # "plate" /\ Len(normalizePhoneDigits(SearchTerm)) >= 7)
    /\ Consulted("getCustomersByExactName") <=> response.via \notin {"plate", "phone"}
    /\ Before("getVehicleByPlate", "getCustomerByNormalizedPhone")
    /\ Before("getVehicleByPlate", "getCustomersByExactName")
    /\ Before("getCustomerByNormalizedPhone", "getCustomersByExactName")
    /\ response.via = "plate" => ilike(response.match.vehicle.plateNumber, toUpperCase(SearchTerm))
    /\ response.via = "phone" => response.match.vehicle.customerId \in Ids(PhoneOwners)
    /\ response.via = "name" => response.match.vehicle.customerId \in Ids(Named)
    /\ (response.via = "none") = (response.match = NULL)
    /\ Len(normalizePhoneDigits(SearchTerm)) < 7 =>
         \A i \in 1..Len(response.seeds) : response.seeds[i].reason # "phone"

\* the term resolved by phone to the phone owner's only vehicle, while the one
\* customer carrying the term as name owns one other vehicle
PriorityOrderWitness ==
  /\ Answered
  /\ response.via = "phone"
  /\ ~Consulted("getCustomersByExactName")
  /\ Cardinality(Named) = 1
  /\ Cardinality(OwnedBy(Named)) = 1
  /\ response.match.vehicle \notin OwnedBy(Named)

\* a plate-like term with 7 digits missed at the plate level and resolved at
\* the phone level
PriorityOrderPlateMissWitness ==
  /\ Answered
  /\ response.via = "phone"
  /\ response.reads[1] = "getVehicleByPlate"

(***************************************************************************)
(* Properties of the pattern builders                                      *)
(***************************************************************************)
Built == invocation.fn = "buildPatterns" /\ invocation.done

\* the string with its i-th character (1-based) replaced
ReplaceAt(text, i, char) == [text EXCEPT ![i] = char]

\* texts that tell the substring pattern of a literal from any other pattern:
\* the literal alone and inside a longer text, and the literal with one
\* character changed or missing
Probes(literal) ==
  {literal, <<"#">> \o literal \o <<"#">>, <<>>}
    \cup {ReplaceAt(literal, i, "#") : i \in 1..Len(literal)}
    \cup {DeleteAt(literal, i - 1) : i \in 1..Len(literal)}

\* the pattern matches exactly the texts that contain the literal
IsSubstringPattern(pattern, literal) ==
  \A text \in Probes(literal) : like(text, pattern) <=> includes(text, literal)

\* every string obtained by deleting one character
OneDeleted(text) == {SubSeq(text, 1, i - 1) \o SubSeq(text, i + 1, Len(text)) : i \in 1..Len(text)}

\* the maximal runs of characters that are not whitespace
WhitespaceDelimited(text) ==
  {SubSeq(text, run[1], run[2]) :
     run \in {r \in (1..Len(text)) \X (1..Len(text)) :
               /\ r[1] <= r[2]
               /\ \A m \in r[1]..r[2] : ~IsSpace(text[m])
               /\ (r[1] = 1 \/ IsSpace(text[r[1] - 1]))
               /\ (r[2] = Len(text) \/ IsSpace(text[r[2] + 1]))}}

ExpectedVariants(text) == IF Len(text) >= 4 THEN OneDeleted(text) ELSE {}

ExpectedFuzzyLiterals(text) ==
  {text} \cup ExpectedVariants(text) \cup {token \in WhitespaceDelimited(text) : Len(token) >= 3}

ExpectedDigitLiterals(digits) == {digits} \cup ExpectedVariants(digits)

\* the patterns are the substring patterns of the literals, one for each
ExactlyThePatternsOf(patterns, literals) ==
  /\ \A literal \in literals : \E pattern \in patterns : IsSubstringPattern(pattern, literal)
  /\ \A pattern \in patterns : \E literal \in literals : IsSubstringPattern(pattern, literal)

\* C21: pattern generation.  For a value whose trimmed form t is not empty,
\* buildFuzzyPatterns returns exactly the substring patterns of t, of every
\* one-character deletion of t when |t| >= 4 (each of length >= 3), and of
\* every whitespace-delimited token of t of length >= 3; buildDigitPatterns
\* returns the substring patterns of the digits of t and of their deletions
\* when there are at least 4 digits, and nothing when t has no digit.
PatternGeneration ==
  Built =>
    /\ trim(invocation.value) # <<>> =>
         ExactlyThePatternsOf(invocation.fuzzy, ExpectedFuzzyLiterals(trim(invocation.value)))
    /\ \A variant \in ExpectedVariants(trim(invocation.value)) : Len(variant) >= 3
    /\ normalizePhoneDigits(invocation.value) # <<>> =>
         ExactlyThePatternsOf(invocation.digit, ExpectedDigitLiterals(normalizePhoneDigits(invocation.value)))
    /\ normalizePhoneDigits(invocation.value) = <<>> => invocation.digit = {}

(***************************************************************************)
(* Properties of the candidate fetcher                                     *)
(***************************************************************************)
Fetched == invocation.fn = "searchVehicleCandidates" /\ invocation.done

FetchTerm == trim(invocation.term)

\* the row matches a generated text pattern on plate, make, model or owner
\* name, or a generated digit pattern on the owner's digits-only phone
MatchesAPattern(row, term) ==
  \/ \E pattern \in buildFuzzyPatterns(term) :
       \E field \in {row.vehicle.plateNumber, row.vehicle.make, row.vehicle.model}
                     \cup (IF row.customer = NULL THEN {} ELSE {row.customer.name}) :
         like(toLowerCase(field), toLowerCase(pattern))
  \/ \E pattern \in buildDigitPatterns(term) :
       row.customer # NULL /\ like(normalizePhoneDigits(row.customer.phone), pattern)

\* C22: no unfiltered scan.  The fetcher sends its query only with a filter:
\* every row the query answers and every candidate returned matches a
\* generated pattern, and when no pattern is generated no query is sent and
\* the result is the empty list.
NoUnfilteredScan ==
  Fetched =>
    /\ \A i \in 1..Len(invocation.rawResults) :
         MatchesAPattern(invocation.rawResults[i], FetchTerm)
    /\ \A i \in 1..Len(invocation.candidates) :
         MatchesAPattern(invocation.candidates[i], FetchTerm)
    /\ invocation.queried =>
         buildFuzzyPatterns(FetchTerm) \cup buildDigitPatterns(FetchTerm) # {}
    /\ buildFuzzyPatterns(FetchTerm) \cup buildDigitPatterns(FetchTerm) = {} =>
         (~invocation.queried /\ invocation.candidates = <<>>)

\* a term that matches nothing was searched on a store with vehicles, and a
\* query was sent
NoUnfilteredScanWitness ==
  /\ Fetched
  /\ invocation.queried
  /\ vehicles # {}
  /\ invocation.rawResults = <<>>
  /\ invocation.candidates = <<>>

\* a blank term was searched on a store with vehicles: no query, no candidate
NoUnfilteredScanBlankWitness ==
  /\ Fetched
  /\ invocation.term = <<" ">>
  /\ vehicles # {}
  /\ ~invocation.queried
  /\ invocation.candidates = <<>>

\* the vehicles with a row that matches a generated pattern
MatchingVehicles ==
  {row.vehicle : row \in {r \in JoinedRows : MatchesAPattern(r, FetchTerm)}}

RowVehicles(rows) == {rows[i].vehicle : i \in 1..Len(rows)}

\* 6 x max(limit, 5)
Window(limit) == 6 * (IF limit > 5 THEN limit ELSE 5)

\* C23: fetcher bounds.  The fetcher scores at most 6 x max(limit, 5) rows,
\* which are the most recently created vehicles matching a pattern, and
\* returns at most `limit` candidates with pairwise distinct vehicle ids, each
\* of them one of the scored rows, with the customer of its vehicle or null
\* when there is none; a matching vehicle older than the window is never
\* returned.
FetcherBounds ==
  Fetched =>
    /\ Len(invocation.rawResults) <= Window(invocation.limit)
    /\ RowVehicles(invocation.rawResults) \subseteq MatchingVehicles
    /\ Len(invocation.rawResults) < Window(invocation.limit) =>
         RowVehicles(invocation.rawResults) = MatchingVehicles
    /\ \A inside \in RowVehicles(invocation.rawResults) :
         \A outside \in MatchingVehicles \ RowVehicles(invocation.rawResults) :
           outside.createdAt <= inside.createdAt
    /\ Len(invocation.candidates) <= invocation.limit
    /\ \A i \in 1..Len(invocation.candidates), j \in 1..Len(invocation.candidates) :
         invocation.candidates[i].vehicle.id = invocation.candidates[j].vehicle.id => i = j
    /\ \A i \in 1..Len(invocation.candidates) :
         /\ \E k \in 1..Len(invocation.rawResults) :
              invocation.rawResults[k] = invocation.candidates[i]
         /\ invocation.candidates[i].customer \in getCustomer(invocation.candidates[i].vehicle.customerId)

\* more vehicles match than the window holds, and the oldest of them, whose
\* plate is part of the term, is not among the candidates although it would
\* score highest
FetcherBoundsWitness ==
  /\ Fetched
  /\ invocation.term = <<"F","0","1"," ","K","i","a">>
  /\ invocation.limit = 5
  /\ Cardinality(MatchingVehicles) > Window(invocation.limit)
  /\ Len(invocation.rawResults) = Window(invocation.limit)
  /\ Len(invocation.candidates) = invocation.limit
  /\ FetchVehicle(1) \in MatchingVehicles
  /\ FetchVehicle(1) \notin RowVehicles(invocation.candidates)
  /\ \A i \in 1..Len(invocation.candidates) :
       RatLess(computeCandidateScore(toUpperCase(FetchTerm), normalizePhoneDigits(FetchTerm),
                                     invocation.candidates[i]),
               computeCandidateScore(toUpperCase(FetchTerm), normalizePhoneDigits(FetchTerm),
                                     [vehicle |-> FetchVehicle(1), customer |-> FleetOwner]))

\* with one vehicle fewer the oldest vehicle is inside the window and ranks first
FetcherBoundsInsideWitness ==
  /\ Fetched
  /\ invocation.term = <<"F","0","1"," ","K","i","a">>
  /\ invocation.limit = 5
  /\ Cardinality(MatchingVehicles) = Window(invocation.limit)
  /\ invocation.candidates[1].vehicle = FetchVehicle(1)

(***************************************************************************)
(* Properties of the suggestion builder                                    *)
(***************************************************************************)
\* the positions of a vehicle id in a list of suggestions or candidates
PositionsOf(entries, id) == {i \in 1..Len(entries) : entries[i].vehicle.id = id}

\* C24: deduplication by vehicle identity.  No two suggestions of a response
\* have the same vehicle id, also when the resolver seeded a vehicle twice
\* (by phone and by name) or the fetcher returned a seeded vehicle again; a
\* suggestion that was not a seed comes from a fetched candidate whose id is
\* not the match's and not a seed's.
Deduplicated ==
  Answered =>
    /\ \A id \in IdsOf(response.suggestions) :
         Cardinality(PositionsOf(response.suggestions, id)) = 1
    /\ \A i \in 1..Len(response.suggestions) :
         LET id == response.suggestions[i].vehicle.id
         IN  /\ id # MatchVehicleId(response.match)
             /\ id \in IdsOf(response.seeds) \cup IdsOf(response.fetched)
             /\ id \in IdsOf(response.seeds) =>
                  response.suggestions[i] = response.seeds[CHOOSE k \in PositionsOf(response.seeds, id) :
                                                            \A m \in PositionsOf(response.seeds, id) : k <= m]

\* a vehicle was seeded by the phone step and again by the name step, the
\* fetcher returned it too, and it is suggested once
DeduplicatedWitness ==
  /\ Answered
  /\ \E i \in 1..Len(response.seeds), j \in 1..Len(response.seeds) :
       /\ response.seeds[i].vehicle.id = response.seeds[j].vehicle.id
       /\ response.seeds[i].reason = "phone"
       /\ response.seeds[j].reason = "name"
       /\ response.seeds[i].vehicle.id \in IdsOf(response.fetched)
       /\ Cardinality(PositionsOf(response.suggestions, response.seeds[i].vehicle.id)) = 1

\* the positions of the seeds that are not the match and not a repetition of
\* an earlier seed
KeptSeedPositions ==
  {i \in 1..Len(response.seeds) :
     /\ response.seeds[i].vehicle.id # MatchVehicleId(response.match)
     /\ \A j \in 1..(i - 1) : response.seeds[j].vehicle.id # response.seeds[i].vehicle.id}

\* the k-th smallest element of a set of numbers
KthOf(numbers, k) == CHOOSE x \in numbers : Cardinality({y \in numbers : y <= x}) = k

\* the fetched vehicles that are neither the match nor a seed
FillingIds ==
  (IdsOf(response.fetched) \ IdsOf(response.seeds)) \ {MatchVehicleId(response.match)}

\* the seeds come first, as the resolver tagged them, and fetched candidates
\* fill the places left up to the limit
SeedsFirst ==
  /\ Len(response.suggestions) =
       Min(VEHICLE_SUGGESTION_LIMIT, Cardinality(KeptSeedPositions) + Cardinality(FillingIds))
  /\ \A k \in 1..Cardinality(KeptSeedPositions) :
       response.suggestions[k] = response.seeds[KthOf(KeptSeedPositions, k)]
  /\ \A k \in (Cardinality(KeptSeedPositions) + 1)..Len(response.suggestions) :
       response.suggestions[k].vehicle.id \in FillingIds

\* C25 as stated: with at most 5 distinct seed vehicles other than the match,
\* every seed is suggested with the resolver's tag, fetched candidates fill
\* the places left, and the fetch loop stops as soon as the accumulator
\* reaches the limit, so the accumulator never holds more than 5 entries.
SeedsKeptStoppingAtLimit ==
  (Answered /\ Cardinality(KeptSeedPositions) <= VEHICLE_SUGGESTION_LIMIT) =>
    /\ SeedsFirst
    /\ response.accumulated <= VEHICLE_SUGGESTION_LIMIT

\* C25: seeds are never displaced.  With at most 5 distinct seed vehicles
\* other than the match, every seed is suggested with the resolver's tag and
\* fetched candidates fill the places left up to the limit; the fetch loop
\* stops after the first insertion that leaves the accumulator with at least
\* 5 entries, which is a sixth entry when the seeds alone are 5, and the
\* final slice cuts it off.
SeedsKept ==
  (Answered /\ Cardinality(KeptSeedPositions) <= VEHICLE_SUGGESTION_LIMIT) =>
    /\ SeedsFirst
    /\ response.accumulated =
         IF FillingIds = {} THEN Cardinality(KeptSeedPositions)
         ELSE IF Cardinality(KeptSeedPositions) = VEHICLE_SUGGESTION_LIMIT
         THEN VEHICLE_SUGGESTION_LIMIT + 1
         ELSE Min(VEHICLE_SUGGESTION_LIMIT, Cardinality(KeptSeedPositions) + Cardinality(FillingIds))

\* five seeds and a further fetched vehicle: six entries were accumulated and
\* the five seeds are the suggestions
SeedsKeptWitness ==
  /\ Answered
  /\ Cardinality(KeptSeedPositions) = VEHICLE_SUGGESTION_LIMIT
  /\ FillingIds # {}
  /\ response.accumulated = VEHICLE_SUGGESTION_LIMIT + 1
  /\ IdsOf(response.suggestions) = IdsOf(response.seeds)

\* two seeds followed by a fetched vehicle of another customer
SeedsKeptFilledWitness ==
  /\ Answered
  /\ Cardinality(KeptSeedPositions) = 2
  /\ Len(response.suggestions) = 3
  /\ response.suggestions[3].vehicle = NeighbourVehicle

(***************************************************************************)
(* Properties of the edit distance                                         *)
(***************************************************************************)
Measured == invocation.fn = "levenshteinDistance" /\ invocation.done

\* the strings one insertion, deletion or substitution away from a string,
\* over the alphabet and up to the bounded length
OneEditFrom(text) ==
  {SubSeq(text, 1, i - 1) \o SubSeq(text, i + 1, Len(text)) : i \in 1..Len(text)}
    \cup {[text EXCEPT ![i] = char] : i \in 1..Len(text), char \in EditAlphabet}
    \cup (IF Len(text) < MaxEditLen
          THEN {SubSeq(text, 1, i) \o <<char>> \o SubSeq(text, i + 1, Len(text)) :
                  i \in 0..Len(text), char \in EditAlphabet}
          ELSE {})

\* the least number of edits after which the target is among the strings reached
RECURSIVE EditsUntil(_, _, _)
EditsUntil(reached, target, edits) ==
  IF target \in reached THEN edits
  ELSE EditsUntil(reached \cup UNION {OneEditFrom(text) : text \in reached}, target, edits + 1)

MinimumEdits(a, b) == EditsUntil({a}, b, 0)

\* C26: edit distance.  levenshteinDistance(a, b) is the minimum number of
\* single-character insertions, deletions and substitutions turning a into b:
\* it is 0 exactly when a = b, symmetric, and at most max(|a|, |b|), so the
\* normalized distance distance / max(|value|, |term|, 1) lies in [0, 1].
EditDistance ==
  Measured =>
    /\ invocation.distance = MinimumEdits(invocation.a, invocation.b)
    /\ (invocation.distance = 0) = (invocation.a = invocation.b)
    /\ invocation.distance = levenshteinDistance(invocation.b, invocation.a)
    /\ invocation.distance <= Max(Len(invocation.a), Len(invocation.b))
    /\ invocation.normalizedDistance[2] = Max(Max(Len(invocation.a), Len(invocation.b)), 1)
    /\ invocation.normalizedDistance[1] = invocation.distance
    /\ AtLeast(invocation.normalizedDistance, <<0, 1>>)
    /\ AtLeast(<<1, 1>>, invocation.normalizedDistance)

\* `ABC` against `CAB`: two edits although the strings differ in every
\* position and have the same length
EditDistanceWitness ==
  /\ Measured
  /\ invocation.a = <<"A","B","C">>
  /\ invocation.b = <<"C","A","B">>
  /\ invocation.distance = 2
  /\ RatEq(invocation.normalizedDistance, <<2, 3>>)

(***************************************************************************)
(* Properties of the store under the writing endpoints                     *)
(***************************************************************************)
\* C27: plate uniqueness.  After any sequence of vehicle create and update
\* requests no two vehicles of the store have plate numbers that are equal
\* ignoring letter case.
PlateUniqueness ==
  \A v1 \in vehicles, v2 \in vehicles :
    SameIgnoringCase(v1.plateNumber, v2.plateNumber) => v1 = v2

\* C28: phone uniqueness under concurrency.  Under every interleaving of the
\* statements of customer create and update requests, two concurrent POST
\* /api/customers with one phone that both passed the existence check
\* included, no two customers have the same phone; and a request in flight
\* whose phone has been taken when its INSERT runs is answered 400 and
\* leaves the customers as they were.
PhoneUniqueness ==
  /\ \A c1 \in customers, c2 \in customers : c1.phone = c2.phone => c1 = c2
  /\ [][/\ \A c1 \in customers', c2 \in customers' : c1.phone = c2.phone => c1 = c2
        /\ \A r \in inflight :
             (r \notin inflight' /\ PhoneTaken(0, r.body.phone)) =>
               /\ req'.client = r.client
               /\ response'.status = 400
               /\ customers' = customers]_vars

\* two requests with one phone passed the check; the INSERT of the first was
\* answered 201, the second was answered 400 after its INSERT had been tried
PhoneUniquenessWitness ==
  /\ req.route = "POST /api/customers"
  /\ response.status = 400
  /\ response.reads = <<"getCustomerByPhone", "createCustomer">>
  /\ \E c \in customers : c.id = InitialSerial.customers /\ c.phone = req.body.phone
  /\ inflight = {}

(***************************************************************************)
(* Properties of a search among concurrent writes                          *)
(***************************************************************************)
\* the customer of an entry is null or the customer with the id the entry's
\* vehicle refers to
OwnsVehicle(entry) ==
  entry.customer = NULL \/ entry.customer.id = entry.vehicle.customerId

\* the step in which buildLookupPayload's getCustomer answers the search r
\* in flight, which goes on as `next`
CustomerAnswers(r, next) ==
  /\ r.at = "buildLookupPayload"
  /\ "getCustomer" \in r.awaited
  /\ next.request = r.request
  /\ "getCustomer" \notin next.awaited

\* C29: owner consistency of results.  Under every interleaving of the reads
\* of a search with customer and vehicle creates, updates and deletes, the
\* match and every suggestion of a search response have a customer that is
\* null or has the id their vehicle refers to; and when the customer of the
\* matched vehicle is gone by the time it is read, the search goes on with
\* customer null and is not answered with an error.
OwnerConsistency ==
  /\ []((req.route = "GET /api/vehicles/search" /\ response.status = 200) =>
          /\ response.match # NULL => OwnsVehicle(response.match)
          /\ \A i \in 1..Len(response.suggestions) : OwnsVehicle(response.suggestions[i]))
  /\ [][\A r \in inflight : \A next \in inflight' :
           (CustomerAnswers(r, next) /\ r.vehicle.customerId \notin Ids(customers)) =>
             /\ next.customer = NULL
             /\ next.vehicle = r.vehicle
             /\ response' = response]_vars

\* the matched vehicle was read, its customer was deleted before
\* buildLookupPayload read it, and the search was answered with that vehicle
\* and customer null
OwnerConsistencyWitness ==
  /\ req.route = "GET /api/vehicles/search"
  /\ response.status = 200
  /\ response.match # NULL
  /\ response.match.customer = NULL
  /\ response.match.vehicle.customerId \notin Ids(customers)

\* seeds were read for a customer who was deleted before the search was
\* answered: the suggestions pair the customer's vehicles with the customer as
\* read
OwnerConsistencySeedWitness ==
  /\ req.route = "GET /api/vehicles/search"
  /\ response.status = 200
  /\ \E i \in 1..Len(response.suggestions) :
       /\ response.suggestions[i].reason = "name"
       /\ response.suggestions[i].customer # NULL
       /\ response.suggestions[i].customer.id = response.suggestions[i].vehicle.customerId
       /\ response.suggestions[i].customer \notin customers

(***************************************************************************)
(* Properties of POST /api/services                                        *)
(***************************************************************************)
\* C30: service creation is all-or-nothing.  A step that answers POST
\* /api/services with another status than 201 leaves the services and the
\* service media as they were and leaves none of its files in the upload
\* directory; a step that answers 201 has inserted one service row and one
\* media row, referring to that service, per uploaded file.
ServiceAllOrNothing ==
  [][(req'.route = "POST /api/services" /\ response' # NoResponse) =>
       IF response'.status # 201
       THEN services' = services /\ media' = media /\ uploads' = uploads
       ELSE /\ Cardinality(services' \ services) = 1
            /\ services \subseteq services'
            /\ Cardinality(media' \ media) = Cardinality(uploads' \ uploads)
            /\ \A row \in media' \ media :
                 /\ row.relativePath \in uploads' \ uploads
                 /\ \E x \in services' \ services : row.serviceId = x.id]_vars

====
